---- MODULE Spec2Model ----
(***************************************************************************)
(* UnEmpower API: the chain event indexer (event_listener.py), the credit  *)
(* scoring engine (services/scoring.py), the risk signals (services/       *)
(* fraud.py, workproof_integrity.py, early_warning.py, forecasting.py) and *)
(* the offer composer (routers/ai.py), as state machines.                  *)
(*                                                                         *)
(* Eight specifications share the variables below:                         *)
(*   Spec         the indexer loop against a growing chain                 *)
(*   SpecSignals  the risk signals over a worker's feature vector          *)
(*   SpecOffer    the offer composer over a base offer and signal scores   *)
(*   SpecScoring  the scoring engine with its process-wide model cache     *)
(*   SpecTrust    the trust score of an event history                      *)
(*   SpecRequest  offer requests against the event store and audit table   *)
(*   SpecProgress the indexer loop with fair iterations                    *)
(*   SpecLimiter  the request rate limiter of the API process              *)
(***************************************************************************)
EXTENDS Integers, Sequences, FiniteSets

VARIABLES
    \* ---- chain (external) ----
    chain,        \* the logs of the chain, in (block, log index) order
    head,         \* the chain's current block number
    mined,        \* how many blocks with content were mined (bounds the run)
    \* ---- EventStore (database.py) ----
    db,           \* the three event tables, each a sequence of rows in id order
    checkpoint,   \* IndexerState.last_processed_block, or NoRow
    \* ---- indexer process (event_listener.py) ----
    running,      \* TRUE once EventIndexer.run entered its loop
    startBlock,   \* settings.INDEXER_START_BLOCK of the running process
    lastPoll,     \* what the latest loop iteration did (its printed outcome)
    \* ---- one POST /ai/offer request (routers/ai.py) ----
    req,          \* the base score inputs and the four signal scores
    offer,        \* the composed offer of the request, or NoOffer
    \* ---- the AI signal services (services/*.py) ----
    wk,           \* the rows of one worker in the three event tables
    sig,          \* the result of the latest signal call for that worker
    \* ---- ScoringEngine process state (services/scoring.py) ----
    proc,         \* "up" while a process that imported the scoring module lives
    model,        \* the module's _model singleton, NoModel until obtained
    modelFile,    \* what MODEL_PATH holds on disk
    obtained,     \* how often this process loaded or trained a model
    scoreLog,     \* the (features, result) pairs of this process's scoring calls
    restarts,     \* how many processes have ended (bounds the run)
    fpLow,        \* whether this machine's float products fall below exact ones
    trust,        \* the latest trust score computed from an event history
    \* ---- POST /ai/offer requests in flight (routers/ai.py) ----
    rq,           \* per request: its position in generate_offer and its locals
    stored,       \* how many workproof_events rows the worker has
    commits,      \* how many rows the indexer added meanwhile (bounds the run)
    storeUp,      \* whether the database answers queries
    cfgOk,        \* whether the session factory can be built
    audit,        \* the offer_history table, rows in id order
    clock,        \* time.time() in whole seconds
    \* ---- RateLimitMiddleware of the API process (main.py) ----
    rate_limits,  \* _rate_limits: per key the times of the requests let through
    wall,         \* time.time() of the API process, in whole seconds
    forwarded,    \* per key the times at which this process called the handler
    reply         \* what the latest dispatch answered

idxVars == <<chain, head, mined, db, checkpoint, running, startBlock, lastPoll>>

offerVars == <<req, offer>>

sigVars == <<wk, sig>>

scoreVars == <<proc, model, modelFile, obtained, scoreLog, restarts, fpLow, trust>>

reqVars == <<rq, stored, commits, storeUp, cfgOk, audit, clock>>

limitVars == <<rate_limits, wall, forwarded, reply>>

vars == <<chain, head, mined, db, checkpoint, running, startBlock, lastPoll,
          req, offer, wk, sig,
          proc, model, modelFile, obtained, scoreLog, restarts, fpLow, trust,
          rq, stored, commits, storeUp, cfgOk, audit, clock,
          rate_limits, wall, forwarded, reply>>

----------------------------------------------------------------------------
(* Bounds of the indexer model *)

MaxMines == 2          \* blocks with content the chain mines in a run

\* chunk_size of EventIndexer.run
chunk_size == 100

NoRow == -1            \* no indexer_state row for the chain yet

TxHashes == {"t1", "t2"}

\* INDEXER_START_BLOCK values a deployment may configure (negative ones are
\* legal for the settings field and clamped by max(0, .))
StartBlocks == {-5, 1}

\* How far one mining step moves the head
MineSteps == {1, chunk_size}

\* Log templates of one mined block: tx hash, topic0, and whether the data
\* decodes against the event ABI. Topics "wp" are emitted by the WorkProof
\* contract, the others by the LoanVault contract.
Tpl(tx, topic, ok) == [tx |-> tx, topic |-> topic, decodable |-> ok]

BlockLogChoices ==
    { <<>>,
      << Tpl("t1", "wp", TRUE) >>,
      << Tpl("t1", "wp", TRUE), Tpl("t1", "wp", TRUE) >>,
      << Tpl("t2", "wp", TRUE), Tpl("t2", "loan", TRUE) >>,
      << Tpl("t2", "wp", FALSE), Tpl("t1", "loan", TRUE),
         Tpl("t1", "repaid", TRUE), Tpl("t2", "other", TRUE) >> }

EmptyDb == [wp |-> <<>>, loan |-> <<>>, repay |-> <<>>]

----------------------------------------------------------------------------
(* The chain RPC *)

RECURSIVE Stamp(_, _, _)
\* the logs of one block, with their block number and log index
Stamp(tpls, blk, i) ==
    IF i > Len(tpls) THEN <<>>
    ELSE << [block |-> blk, idx |-> i, tx |-> tpls[i].tx,
             topic |-> tpls[i].topic, decodable |-> tpls[i].decodable] >>
         \o Stamp(tpls, blk, i + 1)

InRange(log, from_block, to_block) ==
    log.block >= from_block /\ log.block <= to_block

\* w3.eth.get_logs({address: WORKPROOF_ADDRESS, fromBlock, toBlock,
\*                  topics: [workproof_topic]})
get_logs_workproof(logs, from_block, to_block) ==
    SelectSeq(logs, LAMBDA l: InRange(l, from_block, to_block) /\ l.topic = "wp")

\* w3.eth.get_logs({address: LOAN_VAULT_ADDRESS, fromBlock, toBlock})
get_logs_loanvault(logs, from_block, to_block) ==
    SelectSeq(logs, LAMBDA l: InRange(l, from_block, to_block) /\ l.topic # "wp")

----------------------------------------------------------------------------
(* EventStore tables and the session *)

\* The row an event handler builds from a decoded log
RowOf(log) == [tx_hash |-> log.tx, block_number |-> log.block, log_index |-> log.idx]

\* db.query(T).filter(T.tx_hash == h).first(): sees committed rows only, the
\* session factory being built with autoflush=False
Exists(table, h) == \E i \in 1..Len(table) : table[i].tx_hash = h

\* Column(..., unique=True) on tx_hash
UniqueTx(table) ==
    \A i, j \in 1..Len(table) : table[i].tx_hash = table[j].tx_hash => i = j

\* the constraint left out of the schema
CommitNoUnique(store, sess) ==
    [raised |-> FALSE,
     db |-> [wp |-> store.wp \o sess.wp, loan |-> store.loan \o sess.loan,
             repay |-> store.repay \o sess.repay]]

\* db.commit(): flushes the pending rows; a unique violation raises
\* IntegrityError and nothing of the transaction is kept
Commit(store, sess) ==
    LET new == [wp |-> store.wp \o sess.wp, loan |-> store.loan \o sess.loan,
                repay |-> store.repay \o sess.repay]
    IN IF UniqueTx(new.wp) /\ UniqueTx(new.loan) /\ UniqueTx(new.repay)
       THEN [raised |-> FALSE, db |-> new]
       ELSE [raised |-> TRUE, db |-> store]

\* number of rows of the three event tables
Rows(store) == Len(store.wp) + Len(store.loan) + Len(store.repay)

EmptySession == [wp |-> <<>>, loan |-> <<>>, repay |-> <<>>]

----------------------------------------------------------------------------
(* EventIndexer: the event handlers *)

\* a handler whose duplicate check never matches
ExistsNever(table, h) == FALSE

\* the "Check if already exists" query of the three handlers
AlreadyExists(table, h) == Exists(table, h)

\* process_workproof_event: a log that does not decode raises inside the
\* handler's try and is skipped; a known tx hash returns; else db.add(event)
process_workproof_event(store, sess, log) ==
    IF ~log.decodable THEN sess
    ELSE IF AlreadyExists(store.wp, log.tx) THEN sess
    ELSE [sess EXCEPT !.wp = Append(@, RowOf(log))]

process_loan_approved_event(store, sess, log) ==
    IF ~log.decodable THEN sess
    ELSE IF AlreadyExists(store.loan, log.tx) THEN sess
    ELSE [sess EXCEPT !.loan = Append(@, RowOf(log))]

process_repaid_event(store, sess, log) ==
    IF ~log.decodable THEN sess
    ELSE IF AlreadyExists(store.repay, log.tx) THEN sess
    ELSE [sess EXCEPT !.repay = Append(@, RowOf(log))]

RECURSIVE ForWorkproofLogsAbort(_, _, _, _)
\* the loop with a handler that lets the decode error escape: the try around
\* get_logs catches it and the remaining logs are never handled
ForWorkproofLogsAbort(store, sess, logs, i) ==
    IF i > Len(logs) THEN sess
    ELSE IF ~logs[i].decodable THEN sess
    ELSE ForWorkproofLogsAbort(store, process_workproof_event(store, sess, logs[i]),
                               logs, i + 1)

RECURSIVE ForWorkproofLogs(_, _, _, _)
\* for log in workproof_logs: self.process_workproof_event(db, log)
ForWorkproofLogs(store, sess, logs, i) ==
    IF i > Len(logs) THEN sess
    ELSE ForWorkproofLogs(store, process_workproof_event(store, sess, logs[i]), logs, i + 1)

RECURSIVE ForLoanLogs(_, _, _, _)
\* for log in loan_logs: dispatch on topic0; other topics are ignored
ForLoanLogs(store, sess, logs, i) ==
    IF i > Len(logs) THEN sess
    ELSE LET s2 == IF logs[i].topic = "loan"
                      THEN process_loan_approved_event(store, sess, logs[i])
                   ELSE IF logs[i].topic = "repaid"
                      THEN process_repaid_event(store, sess, logs[i])
                   ELSE sess
         IN ForLoanLogs(store, s2, logs, i + 1)

\* process_block_range(db, from_block, to_block) against the chain `logs`.
\* wpOk / lvOk: whether the get_logs call for the WorkProof / LoanVault
\* contract answers (a failing call raises inside its own try and is only
\* printed); dbOk: whether the database accepts the commit.
\* Result: whether the call raised, and the tables it leaves.
process_block_range(store, logs, from_block, to_block, wpOk, lvOk, dbOk) ==
    IF from_block > to_block THEN [raised |-> FALSE, db |-> store]
    ELSE LET s1 == IF wpOk
                   THEN ForWorkproofLogs(store, EmptySession,
                            get_logs_workproof(logs, from_block, to_block), 1)
                   ELSE EmptySession
             s2 == IF lvOk
                   THEN ForLoanLogs(store, s1,
                            get_logs_loanvault(logs, from_block, to_block), 1)
                   ELSE s1
         IN IF dbOk THEN Commit(store, s2)
            ELSE [raised |-> TRUE, db |-> store]

----------------------------------------------------------------------------
(* EventIndexer: the checkpoint *)

\* a reader that trusts the configured start block over the stored row
get_last_processed_block_cfg(row, start) ==
    IF start < 0 THEN 0 ELSE start

\* get_last_processed_block: the stored row if there is one, else the row
\* is created at max(0, INDEXER_START_BLOCK)
get_last_processed_block(row, start) ==
    IF row # NoRow THEN row
    ELSE IF start < 0 THEN 0 ELSE start

\* update_last_processed_block: writes only when the row exists
update_last_processed_block(row, block_number) ==
    IF row # NoRow THEN block_number ELSE row

\* a chunk end that is not clamped to the chain head
Unclamped(a, b) == a

Min(a, b) == IF a < b THEN a ELSE b

NoPoll == [kind |-> "none", from |-> 0, to |-> 0, wpOk |-> TRUE, lvOk |-> TRUE,
           committed |-> FALSE, before |-> 0, added |-> 0]

----------------------------------------------------------------------------
(* ScoringEngine: credit terms (services/scoring.py) *)

\* int(x) of a float x whose exact value is num/den >= 0: the floor, and, when
\* the exact value is a whole number, possibly one less, a binary floating
\* point product of decimal fractions falling just below it
FloatInt(num, den) ==
    {num \div den} \cup (IF num % den = 0 /\ num > 0 THEN {(num \div den) - 1} ELSE {})

\* Credit limit tiers (in USDC)
base_limit(trust_score) ==
    IF trust_score >= 8000 THEN 1000
    ELSE IF trust_score >= 6000 THEN 500
    ELSE IF trust_score >= 4000 THEN 250
    ELSE IF trust_score >= 2000 THEN 100
    ELSE 50

\* the activity multiplier without its cap
activity_mult40_uncapped(shift_count_30d) == 40 + shift_count_30d

\* activity_mult = min(1.5, 1 + shift_count_30d / 40), in fortieths
activity_mult40(shift_count_30d) == Min(60, 40 + shift_count_30d)

\* credit_limit = int(base_limit * activity_mult * 1_000_000): the values the
\* float product may truncate to (exactly base_limit * mult40 * 25000)
credit_limits(trust_score, shift_count_30d) ==
    FloatInt(base_limit(trust_score) * activity_mult40(shift_count_30d) * 25000, 1)

\* APR based on PD: pd_pct = pd / 10_000 compared with 5, 10, 20, 40
apr_bps(pd) ==
    IF pd < 50000 THEN 800
    ELSE IF pd < 100000 THEN 1200
    ELSE IF pd < 200000 THEN 1800
    ELSE IF pd < 400000 THEN 2400
    ELSE 3600

\* Tenure based on trust
tenure_days(trust_score) ==
    IF trust_score >= 7000 THEN 30
    ELSE IF trust_score >= 5000 THEN 21
    ELSE IF trust_score >= 3000 THEN 14
    ELSE 7

\* compute_credit_terms: the terms it may return
compute_credit_terms(trust_score, pd, shift_count_30d) ==
    { [credit_limit |-> c, apr_bps |-> apr_bps(pd), tenure_days |-> tenure_days(trust_score)] :
        c \in credit_limits(trust_score, shift_count_30d) }

----------------------------------------------------------------------------
(* OfferComposer: generate_offer (routers/ai.py), steps H and I *)

FLAG_HARD_BLOCK == 1
FLAG_ANOMALY_SUSPECT == 2
FLAG_WORKPROOF_SUSPECT == 4
FLAG_EARLY_WARNING_HIGH == 8
FLAG_FAIRNESS_REVIEW == 16

RECURSIVE BitOr(_, _)
\* a | b on non-negative integers
BitOr(a, b) ==
    IF a = 0 THEN b
    ELSE IF b = 0 THEN a
    ELSE (IF a % 2 = 1 \/ b % 2 = 1 THEN 1 ELSE 0) + 2 * BitOr(a \div 2, b \div 2)

\* bool(flags & bit), bit a power of two
HasFlag(flags, bit) == (flags \div bit) % 2 = 1

\* The adjustment factors, as numerators: confidence, anomaly and integrity
\* factors over 10, the early-warning factor over 100. confidence is
\* round(confidence, 2) in hundredths.
confidence_factor(confidence) ==
    IF confidence >= 60 THEN 11 ELSE IF confidence < 30 THEN 9 ELSE 10

anomaly_factor(anomaly_score) ==
    IF anomaly_score >= 60 THEN 7 ELSE IF anomaly_score >= 30 THEN 9 ELSE 10

integrity_factor(integrity_score) ==
    IF integrity_score >= 60 THEN 7 ELSE IF integrity_score >= 30 THEN 9 ELSE 10

risk_factor(risk_score) ==
    IF risk_score >= 60 THEN 60 ELSE IF risk_score >= 30 THEN 85 ELSE 100

\* adjustment_factor as a numerator over FactorDen
adjustment_factor(r) ==
    confidence_factor(r.confidence) * anomaly_factor(r.anomaly)
        * integrity_factor(r.integrity) * risk_factor(r.risk)

FactorDen == 100000

\* apr_adjustment: +300 / +150 for the anomaly tiers, +200 for high risk
apr_adjustment(r) ==
    (IF r.anomaly >= 60 THEN 300 ELSE IF r.anomaly >= 30 THEN 150 ELSE 0)
        + (IF r.risk >= 60 THEN 200 ELSE 0)

\* tenure_adjustment = -7 for high risk
tenure_adjustment(r) == IF r.risk >= 60 THEN -7 ELSE 0

\* int(base_credit_limit * adjustment_factor): the values it may take. The
\* exact quotient c * n / FactorDen is split so that no product leaves the
\* 32-bit range.
adjusted_credits(c, n) ==
    LET a == c \div FactorDen
        b == c % FactorDen
        X == (b \div 100) * n
        Y == (b % 100) * n
        R == (X % 1000) * 100 + Y
        fl == a * n + X \div 1000 + R \div FactorDen
    IN {fl} \cup (IF R % FactorDen = 0 /\ fl > 0 THEN {fl - 1} ELSE {})

Max(a, b) == IF a > b THEN a ELSE b

\* the APR without the clamp of line 214
adjusted_apr_unclamped(base_apr, r) == base_apr + apr_adjustment(r)

\* adjusted_apr = min(3600, max(500, base_apr + apr_adjustment))
adjusted_apr(base_apr, r) == Min(3600, Max(500, base_apr + apr_adjustment(r)))

\* adjusted_tenure = max(7, base_tenure + tenure_adjustment)
adjusted_tenure(base_tenure, r) == Max(7, base_tenure + tenure_adjustment(r))

\* the bitmask with the anomaly-suspect bit set only above 50
fraud_flags_strict(r) ==
    LET f1 == IF r.anomaly >= 85 \/ r.integrity >= 85
              THEN BitOr(0, FLAG_HARD_BLOCK) ELSE 0
        f2 == IF r.anomaly > 50 THEN BitOr(f1, FLAG_ANOMALY_SUSPECT) ELSE f1
        f3 == IF r.integrity >= 50 THEN BitOr(f2, FLAG_WORKPROOF_SUSPECT) ELSE f2
    IN IF r.risk >= 60 THEN BitOr(f3, FLAG_EARLY_WARNING_HIGH) ELSE f3

\* Step I: the fraudFlags bitmask
fraud_flags(r) ==
    LET f1 == IF r.anomaly >= 85 \/ r.integrity >= 85
              THEN BitOr(0, FLAG_HARD_BLOCK) ELSE 0
        f2 == IF r.anomaly >= 50 THEN BitOr(f1, FLAG_ANOMALY_SUSPECT) ELSE f1
        f3 == IF r.integrity >= 50 THEN BitOr(f2, FLAG_WORKPROOF_SUSPECT) ELSE f2
    IN IF r.risk >= 60 THEN BitOr(f3, FLAG_EARLY_WARNING_HIGH) ELSE f3

NoOffer == [made |-> FALSE]

\* The inputs of a request: the scoring engine's trust score and PD with the
\* 30-day proof count, forecast confidence (hundredths) and the three scores
TrustSamples == {1000, 3500, 5500, 9000}
PdSamples == {0, 399999, 400000}
ShiftSamples == {1, 25}
ConfidenceSamples == {0, 29, 30, 59, 60}
AnomalySamples == {0, 29, 30, 49, 50, 59, 60, 84, 85, 90, 100}
IntegritySamples == {0, 29, 30, 40, 49, 50, 60, 84, 85}
RiskSamples == {0, 29, 30, 59, 60, 100}

Requests ==
    [trust_score : TrustSamples, pd : PdSamples, shift_count_30d : ShiftSamples,
     confidence : ConfidenceSamples, anomaly : AnomalySamples,
     integrity : IntegritySamples, risk : RiskSamples]

IdleReq == [trust_score |-> 1000, pd |-> 0, shift_count_30d |-> 0, confidence |-> 0,
            anomaly |-> 0, integrity |-> 0, risk |-> 0]

\* generate_offer from the base offer to the attestation fields
GenerateOffer ==
    /\ ~offer.made
    /\ \E terms \in compute_credit_terms(req.trust_score, req.pd, req.shift_count_30d) :
         \E credit \in adjusted_credits(terms.credit_limit, adjustment_factor(req)) :
            offer' = [made |-> TRUE,
                      base |-> terms,
                      trustScore |-> req.trust_score,
                      pd |-> req.pd,
                      creditLimit |-> credit,
                      aprBps |-> adjusted_apr(terms.apr_bps, req),
                      tenureDays |-> adjusted_tenure(terms.tenure_days, req),
                      fraudFlags |-> fraud_flags(req)]
    /\ UNCHANGED <<req, idxVars, sigVars, scoreVars, reqVars, limitVars>>

NextOffer == GenerateOffer

----------------------------------------------------------------------------
(* FeatureExtractor (services/features.py) *)

\* datetime.utcnow() of the calls, in seconds: noon of day 100
Now == 100 * 86400 + 43200

DaySecs == 86400

\* round(x, digits) of the float x = num / den >= 0, scaled to an integer:
\* the nearest one, either neighbour on an exact tie
Rounded(num, den) ==
    LET q == num \div den
        r2 == 2 * (num % den)
    IN IF r2 < den THEN {q} ELSE IF r2 > den THEN {q + 1} ELSE {q, q + 1}

\* rating = min(5, max(1, workUnits % 10))
RatingOf(wp) == Min(5, Max(1, wp.workUnits % 10))

\* ORDER BY event_timestamp ASC of a sequence of rows (rows of equal
\* timestamp keep their table order)
InsertAsc(sorted, x) ==
    SelectSeq(sorted, LAMBDA e : e.timestamp <= x.timestamp) \o << x >>
        \o SelectSeq(sorted, LAMBDA e : e.timestamp > x.timestamp)

RECURSIVE OrderAsc(_)
OrderAsc(rows) ==
    IF rows = <<>> THEN <<>>
    ELSE InsertAsc(OrderAsc(SubSeq(rows, 1, Len(rows) - 1)), rows[Len(rows)])

\* len([wp for wp in workproofs if wp.event_timestamp >= ts])
CountSince(rows, ts) ==
    Cardinality({i \in DOMAIN rows : rows[i].timestamp >= ts})

\* workproofs[0].event_timestamp of the rows ordered by timestamp descending
LastTimestamp(rows) ==
    CHOOSE t \in {rows[i].timestamp : i \in DOMAIN rows} :
        \A i \in DOMAIN rows : rows[i].timestamp <= t

\* recency_hours = 999999 without work proofs
NoProofRecency10 == 9999990

\* round(recency_hours, 1) in tenths of an hour
recency_hours10(rows) ==
    IF rows = <<>> THEN {NoProofRecency10}
    ELSE IF Now >= LastTimestamp(rows) THEN Rounded(Now - LastTimestamp(rows), 360)
    ELSE {-r : r \in Rounded(LastTimestamp(rows) - Now, 360)}

\* round(repay_ratio_30d, 2) in hundredths: min(1.0, repays / loans), and
\* 1.0 without loans
repay_ratio100(loan_count_30d, repay_count_30d) ==
    IF loan_count_30d > 0
    THEN IF repay_count_30d >= loan_count_30d THEN {100}
         ELSE Rounded(100 * repay_count_30d, loan_count_30d)
    ELSE {100}

\* get_worker_features: the feature records it may return for the worker's
\* rows w (rates in hundredths, recency in tenths of an hour)
get_worker_features(w) ==
    LET shift_count_7d == CountSince(w.proofs, Now - 7 * DaySecs)
        loan_count_30d == CountSince(w.loans, Now - 30 * DaySecs)
        repay_count_30d == CountSince(w.repays, Now - 30 * DaySecs)
    IN { [shiftCount_7d |-> shift_count_7d,
          shiftCount_14d |-> CountSince(w.proofs, Now - 14 * DaySecs),
          shiftCount_30d |-> CountSince(w.proofs, Now - 30 * DaySecs),
          recencyHours |-> rec,
          loanCount_30d |-> loan_count_30d,
          repayRatio_30d |-> ratio,
          workproofRatePerDay_7d |-> rate,
          proofsInLast24h |-> CountSince(w.proofs, Now - DaySecs),
          totalWorkProofs |-> Len(w.proofs),
          totalLoans |-> Len(w.loans),
          totalRepays |-> Len(w.repays)] :
            rec \in recency_hours10(w.proofs),
            ratio \in repay_ratio100(loan_count_30d, repay_count_30d),
            rate \in Rounded(100 * shift_count_7d, 7) }

\* get_workproof_history(worker, days): the proofs since the cutoff, oldest
\* first
get_workproof_history(w, days) ==
    OrderAsc(SelectSeq(w.proofs, LAMBDA wp : wp.timestamp >= Now - days * DaySecs))

----------------------------------------------------------------------------
(* FraudDetector (services/fraud.py) *)

RECENCY_SPIKE_HOURS == 72
PROOF_BURST_THRESHOLD == 10
LOAN_BURST_THRESHOLD == 3
RATING_JUMP_THRESHOLD == 2

Abs(x) == IF x < 0 THEN -x ELSE x

\* the number of consecutive ratings more than RATING_JUMP_THRESHOLD apart
RatingJumps(history) ==
    Cardinality({i \in 2..Len(history) :
        Abs(RatingOf(history[i]) - RatingOf(history[i - 1])) > RATING_JUMP_THRESHOLD})

\* risk level of the anomaly score and of the flag score
score_level(score) ==
    IF score >= 85 THEN "CRITICAL"
    ELSE IF score >= 60 THEN "HIGH"
    ELSE IF score >= 30 THEN "MEDIUM"
    ELSE "LOW"

\* the summed contributions without the cap of line 127
uncapped_score(score) == score

\* score = min(100, score)
capped_score(score) == Min(100, score)

\* the inactivity signal without the totalWorkProofs > 5 condition
inactivity_scores_any(features) ==
    IF features.recencyHours > RECENCY_SPIKE_HOURS * 10
    THEN {Min(25, v) : v \in FloatInt((features.recencyHours - RECENCY_SPIKE_HOURS * 10) * 5, 240)}
    ELSE {0}

\* Signal 1: sudden inactivity
inactivity_scores(features) ==
    IF features.recencyHours > RECENCY_SPIKE_HOURS * 10 /\ features.totalWorkProofs > 5
    THEN {Min(25, v) : v \in FloatInt((features.recencyHours - RECENCY_SPIKE_HOURS * 10) * 5, 240)}
    ELSE {0}

\* Signal 2: proof burst
burst_score(features) ==
    IF features.proofsInLast24h > PROOF_BURST_THRESHOLD
    THEN Min(30, (features.proofsInLast24h - PROOF_BURST_THRESHOLD) * 5)
    ELSE 0

\* Signal 3: unnatural rate spike
rate_scores(features) ==
    IF features.workproofRatePerDay_7d > PROOF_BURST_THRESHOLD * 70
    THEN {Min(20, v) : v \in FloatInt((features.workproofRatePerDay_7d
                                          - PROOF_BURST_THRESHOLD * 50) * 5, 100)}
    ELSE {0}

\* Signal 4: rating jump anomaly
jump_score(history) ==
    IF Len(history) >= 3 /\ RatingJumps(history) >= 2
    THEN Min(20, RatingJumps(history) * 7)
    ELSE 0

\* Signal 5: borrowing burst
loan_score(features) ==
    IF features.loanCount_30d > LOAN_BURST_THRESHOLD
    THEN Min(15, (features.loanCount_30d - LOAN_BURST_THRESHOLD) * 5)
    ELSE 0

\* Signal 6: low repay ratio with many loans
repay_scores(features) ==
    IF features.loanCount_30d >= 2 /\ features.repayRatio_30d < 50
    THEN {Min(25, v) : v \in FloatInt((100 - features.repayRatio_30d) * 30, 100)}
    ELSE {0}

\* the anomaly result of one choice of the float-dependent contributions
anomaly_result(features, s4, s1, s3, s6) ==
    LET signals == [inactivity |-> s1, proofBurst |-> burst_score(features),
                    unnaturalRate |-> s3, ratingJumps |-> s4,
                    loanBurst |-> loan_score(features), lowRepay |-> s6]
        score == capped_score(signals.inactivity + signals.proofBurst
                    + signals.unnaturalRate + signals.ratingJumps
                    + signals.loanBurst + signals.lowRepay)
    IN [anomalyScore |-> score, riskLevel |-> score_level(score), signals |-> signals]

\* compute_anomaly_score: the results it may return
compute_anomaly_score(w) ==
    LET history == get_workproof_history(w, 30)
        jumps == jump_score(history)
    IN UNION { { anomaly_result(features, jumps, s1, s3, s6) :
                    s1 \in inactivity_scores(features),
                    s3 \in rate_scores(features),
                    s6 \in repay_scores(features) } :
               features \in get_worker_features(w) }

----------------------------------------------------------------------------
(* IntegrityChecker (services/workproof_integrity.py) *)

MAX_PROOFS_PER_DAY == 20
MAX_PROOFS_PER_HOUR == 5
MIN_PROOF_INTERVAL_SECONDS == 60

\* the Counter of the proofs per key (date, or date and hour, of the proof)
CountPer(history, secs, key) ==
    Cardinality({i \in DOMAIN history : history[i].timestamp \div secs = key})

KeysOf(history, secs) == {history[i].timestamp \div secs : i \in DOMAIN history}

RECURSIVE ExcessOver(_, _)
\* sum(c - MAX_PROOFS_PER_DAY for _, c in high_density_days)
ExcessOver(days, history) ==
    IF days = {} THEN 0
    ELSE LET d == CHOOSE x \in days : TRUE
         IN (CountPer(history, DaySecs, d) - MAX_PROOFS_PER_DAY)
                + ExcessOver(days \ {d}, history)

\* Check 1: proof density
density_score(history) ==
    LET high_density_days ==
            {d \in KeysOf(history, DaySecs) : CountPer(history, DaySecs, d) > MAX_PROOFS_PER_DAY}
    IN IF high_density_days # {}
       THEN Min(30, Cardinality(high_density_days) * 10
                        + ExcessOver(high_density_days, history))
       ELSE 0

\* Check 2: hourly burst
hourly_score(history) ==
    LET burst_hours ==
            {h \in KeysOf(history, 3600) : CountPer(history, 3600, h) > MAX_PROOFS_PER_HOUR}
    IN IF burst_hours # {} THEN Min(20, Cardinality(burst_hours) * 5) ELSE 0

\* Check 3a: timestamps != sorted(timestamps); sorted is the history put in
\* timestamp order again
ordering_score(history, sorted) ==
    LET timestamps == [i \in DOMAIN history |-> history[i].timestamp]
        sorted_ts == [i \in DOMAIN sorted |-> sorted[i].timestamp]
    IN IF timestamps # sorted_ts THEN 15 ELSE 0

\* Check 3b: submissions less than MIN_PROOF_INTERVAL_SECONDS apart
FastSubmissions(sorted) ==
    Cardinality({i \in 2..Len(sorted) :
        /\ 0 < sorted[i].timestamp - sorted[i - 1].timestamp
        /\ sorted[i].timestamp - sorted[i - 1].timestamp < MIN_PROOF_INTERVAL_SECONDS})

fast_score(fast_submissions) ==
    IF fast_submissions > 0 THEN Min(25, fast_submissions * 5) ELSE 0

\* Check 4: the proof hashes used more than once
Duplicates(history) ==
    {h \in {history[i].proofHash : i \in DOMAIN history} :
        Cardinality({i \in DOMAIN history : history[i].proofHash = h}) > 1}

dup_score(duplicates) ==
    IF duplicates # {} THEN Min(30, Cardinality(duplicates) * 10) ELSE 0

\* Check 5: the positions whose rating is more than RATING_JUMP_THRESHOLD
\* from the rating of the proof before them, in timestamp order
ManipulationAt(ratings_sorted) ==
    {i \in 2..Len(ratings_sorted) :
        Abs(RatingOf(ratings_sorted[i]) - RatingOf(ratings_sorted[i - 1]))
            > RATING_JUMP_THRESHOLD}

manip_score(manipulation_count) ==
    IF manipulation_count >= 3 THEN Min(20, manipulation_count * 4) ELSE 0

\* eventIds: the proofs of a duplicated hash and the proofs after a jump
flagged_events(history, duplicates, ratings_sorted, jumps) ==
    {history[i].proofId : i \in {j \in DOMAIN history : history[j].proofHash \in duplicates}}
        \cup {ratings_sorted[i].proofId : i \in jumps}

\* check_workproof_integrity
check_workproof_integrity(w) ==
    LET history == get_workproof_history(w, 30)
        sorted == OrderAsc(history)
        duplicates == Duplicates(history)
        jumps == ManipulationAt(sorted)
        checks == [density |-> density_score(history),
                   hourlyBurst |-> hourly_score(history),
                   ordering |-> ordering_score(history, sorted),
                   fastSubmissions |-> fast_score(FastSubmissions(sorted)),
                   duplicateHashes |-> dup_score(duplicates),
                   ratingJumps |-> manip_score(Cardinality(jumps))]
        flag_score == Min(100, checks.density + checks.hourlyBurst + checks.ordering
                            + checks.fastSubmissions + checks.duplicateHashes
                            + checks.ratingJumps)
    IN IF history = <<>>
       THEN [flagScore |-> 0, riskLevel |-> "UNKNOWN",
             checks |-> [density |-> 0, hourlyBurst |-> 0, ordering |-> 0,
                         fastSubmissions |-> 0, duplicateHashes |-> 0, ratingJumps |-> 0],
             eventIds |-> {}, proofCount |-> 0]
       ELSE [flagScore |-> flag_score, riskLevel |-> score_level(flag_score),
             checks |-> checks,
             eventIds |-> flagged_events(history, duplicates, sorted, jumps),
             proofCount |-> Len(history)]

----------------------------------------------------------------------------
(* ForecastEngine (services/forecasting.py) *)

\* The forecasts of a worker with proofs in the last 60 days. The smoothing
\* and the coefficient of variation are float computations over the daily
\* earnings; their results are drawn from these samples (amounts in cents,
\* volatility in thousandths, confidence in hundredths).
ForecastSamples ==
    { [f14 |-> 0, f30 |-> 0, vol |-> 0, conf |-> 80],
      [f14 |-> 500, f30 |-> 1071, vol |-> 501, conf |-> 45],
      [f14 |-> 25000, f30 |-> 53571, vol |-> 1000, conf |-> 20] }

volatility_label(vol) ==
    IF vol < 300 THEN "LOW" ELSE IF vol < 600 THEN "MEDIUM" ELSE "HIGH"

confidence_label(conf) ==
    IF conf >= 70 THEN "HIGH" ELSE IF conf >= 40 THEN "MEDIUM" ELSE "LOW"

\* forecast_income: the results it may return
forecast_income(w) ==
    LET history == get_workproof_history(w, 60)
        one_day == Cardinality(KeysOf(history, DaySecs)) <= 1
    IN IF history = <<>>
       THEN { [expectedIncome_14d |-> 0, expectedIncome_30d |-> 0,
               incomeVolatility |-> 0, incomeVolatilityLabel |-> "UNKNOWN",
               confidence |-> 0, confidenceLabel |-> "NO_DATA",
               method |-> "no_data", dataPoints |-> 0] }
       ELSE { LET vol == IF one_day THEN 0 ELSE s.vol
              IN [expectedIncome_14d |-> s.f14, expectedIncome_30d |-> s.f30,
                  incomeVolatility |-> vol,
                  incomeVolatilityLabel |-> volatility_label(vol),
                  confidence |-> s.conf, confidenceLabel |-> confidence_label(s.conf),
                  method |-> "exp_smoothing_wma",
                  dataPoints |-> Cardinality(KeysOf(history, DaySecs))] :
                s \in ForecastSamples }

----------------------------------------------------------------------------
(* EarlyWarning (services/early_warning.py) *)

\* Signal 1: work activity decline, shift_7d < expected_7d * 0.5 with
\* expected_7d = shift_30d / 30 * 7
decline_scores(features) ==
    IF features.shiftCount_30d > 0
          /\ 60 * features.shiftCount_7d < 7 * features.shiftCount_30d
    THEN UNION { {Min(25, v) : v \in FloatInt(decline_pct * 3, 10)} :
                 decline_pct \in FloatInt(100 * (7 * features.shiftCount_30d
                                                    - 30 * features.shiftCount_7d),
                                          7 * features.shiftCount_30d) }
    ELSE {0}

\* Signal 2: anomaly score
anomaly_contributions(anomaly_score) ==
    IF anomaly_score >= 60
    THEN {Min(25, v) : v \in FloatInt(anomaly_score * 3, 10)}
    ELSE {0}

\* Signal 3: repayment ratio
repay_contributions(features) ==
    IF features.loanCount_30d >= 1 /\ features.repayRatio_30d < 70
    THEN {Min(30, v) : v \in FloatInt((100 - features.repayRatio_30d) * 40, 100)}
    ELSE {0}

\* Signal 4: income volatility
vol_contributions(forecast) ==
    IF forecast.incomeVolatility > 500
    THEN {Min(15, v) : v \in FloatInt(forecast.incomeVolatility * 20, 1000)}
    ELSE {0}

\* Signal 5: low forecast income
forecast_contributions(features, forecast) ==
    IF forecast.expectedIncome_14d < 1000 /\ features.totalWorkProofs > 5
    THEN {Min(15, v) : v \in FloatInt((1000 - forecast.expectedIncome_14d) * 15, 1000)}
    ELSE {0}

\* Signal 6: recency
recency_contributions(features) ==
    IF features.recencyHours > 1680 /\ features.totalWorkProofs > 3
    THEN {Min(10, v) : v \in FloatInt((features.recencyHours - 1680) * 2, 240)}
    ELSE {0}

\* levels without the HIGH tier
warning_level_no_high(risk_score) ==
    IF risk_score >= 75 THEN "CRITICAL"
    ELSE IF risk_score >= 25 THEN "MEDIUM"
    ELSE "LOW"

warning_level(risk_score) ==
    IF risk_score >= 75 THEN "CRITICAL"
    ELSE IF risk_score >= 50 THEN "HIGH"
    ELSE IF risk_score >= 25 THEN "MEDIUM"
    ELSE "LOW"

\* the early-warning result of one choice of the six contributions
warning_result(s1, s2, s3, s4, s5, s6) ==
    LET risk_score == Min(100, s1 + s2 + s3 + s4 + s5 + s6)
    IN [riskScore |-> risk_score, riskLevel |-> warning_level(risk_score),
        signals |-> [activityDecline |-> s1, anomalyRisk |-> s2, repaymentRisk |-> s3,
                     volatilityRisk |-> s4, lowForecast |-> s5, recencyRisk |-> s6]]

\* a probability that is cut off instead of rounded
default_risks_truncated(risk_score, horizon) == {(1000 * risk_score) \div horizon}

\* round(min(0.99, risk_score / horizon), 3) in thousandths, horizon being
\* 120 for the 7-day and 150 for the 14-day probability
default_risks(risk_score, horizon) ==
    IF 100 * risk_score >= 99 * horizon THEN {990}
    ELSE Rounded(1000 * risk_score, horizon)

\* the result with its two probabilities
warning_results(result) ==
    { [k \in DOMAIN result \cup {"defaultRiskNext7d", "defaultRiskNext14d"} |->
          IF k = "defaultRiskNext7d" THEN d7
          ELSE IF k = "defaultRiskNext14d" THEN d14
          ELSE result[k]] :
        d7 \in default_risks(result.riskScore, 120),
        d14 \in default_risks(result.riskScore, 150) }

\* compute_early_warning: the results it may return
compute_early_warning(w) ==
    LET feature_set == get_worker_features(w)
        forecasts == forecast_income(w)
        anomaly_scores == {fraud.anomalyScore : fraud \in compute_anomaly_score(w)}
    IN UNION { UNION { UNION { UNION {
        warning_results(warning_result(s1, s2, s3, s4, s5, s6)) :
            s1 \in decline_scores(features),
            s2 \in anomaly_contributions(anomaly_score),
            s3 \in repay_contributions(features),
            s4 \in vol_contributions(forecast),
            s5 \in forecast_contributions(features, forecast),
            s6 \in recency_contributions(features) } :
        anomaly_score \in anomaly_scores } :
        forecast \in forecasts } :
        features \in feature_set }

----------------------------------------------------------------------------
(* The signal services specification *)

\* The work proofs of a worker: n proofs dt seconds apart, the latest one
\* age seconds old; ratings alternate between 1 and 5 when alt, else all 3;
\* the first dups pairs of proofs share a proof hash; the table holds them
\* newest first when rev.
ProofRows(n, age, dt, alt, dups, rev) ==
    [i \in 1..n |->
        LET k == IF rev THEN n + 1 - i ELSE i
        IN [proofId |-> k,
            timestamp |-> Now - age - (n - k) * dt,
            workUnits |-> IF alt THEN (IF k % 2 = 1 THEN 1 ELSE 5) ELSE 3,
            proofHash |-> IF k <= 2 * dups THEN (k + 1) \div 2 ELSE 100 + k]]

\* n loan (or repayment) rows, indexed a day apart, the first age seconds ago
IndexedRows(n, age) == [i \in 1..n |-> [timestamp |-> Now - age - (i - 1) * DaySecs]]

ProofCounts == {0, 1, 2, 6, 22, 70}
ProofAges == {3600, 9 * DaySecs}
ProofGaps == {0, 30, 3600, DaySecs}
DupPairs == {0, 3}
LoanCounts == {<<0, 0>>, <<1, 0>>, <<5, 0>>, <<5, 5>>}

Workers ==
    { [proofs |-> ProofRows(n, age, dt, alt, dups, rev),
       loans |-> IndexedRows(lr[1], 3600),
       repays |-> IndexedRows(lr[2], 3600)] :
        n \in ProofCounts, age \in ProofAges, dt \in ProofGaps,
        alt \in BOOLEAN, dups \in DupPairs, rev \in BOOLEAN, lr \in LoanCounts }

NoWorker == [proofs |-> <<>>, loans |-> <<>>, repays |-> <<>>]

\* no call was made yet
NoSig == [kind |-> "none"]

\* a call of forecast_income for the worker
ForecastIncome ==
    /\ sig = NoSig
    /\ \E res \in forecast_income(wk) : sig' = [kind |-> "forecast", res |-> res]
    /\ UNCHANGED <<wk, idxVars, offerVars, scoreVars, reqVars, limitVars>>

\* a call of compute_anomaly_score for the worker
ComputeAnomalyScore ==
    /\ sig = NoSig
    /\ \E res \in compute_anomaly_score(wk) : sig' = [kind |-> "fraud", res |-> res]
    /\ UNCHANGED <<wk, idxVars, offerVars, scoreVars, reqVars, limitVars>>

\* a call of check_workproof_integrity for the worker
CheckWorkproofIntegrity ==
    /\ sig = NoSig
    /\ sig' = [kind |-> "integrity", res |-> check_workproof_integrity(wk)]
    /\ UNCHANGED <<wk, idxVars, offerVars, scoreVars, reqVars, limitVars>>

\* a call of compute_early_warning for the worker
ComputeEarlyWarning ==
    /\ sig = NoSig
    /\ \E res \in compute_early_warning(wk) : sig' = [kind |-> "warning", res |-> res]
    /\ UNCHANGED <<wk, idxVars, offerVars, scoreVars, reqVars, limitVars>>

\* generate_offer, the four signals it gathers and the bitmask of step I
GatherSignals ==
    /\ sig = NoSig
    /\ LET integrity == check_workproof_integrity(wk)
           forecasts == forecast_income(wk)
           frauds == compute_anomaly_score(wk)
           warnings == compute_early_warning(wk)
       IN \E forecast \in forecasts, fraud_signal \in frauds, early_warning \in warnings :
            sig' = [kind |-> "offer",
                    forecast |-> forecast,
                    fraud |-> fraud_signal,
                    integrity |-> integrity,
                    warning |-> early_warning,
                    fraudFlags |-> fraud_flags([anomaly |-> fraud_signal.anomalyScore,
                                                integrity |-> integrity.flagScore,
                                                risk |-> early_warning.riskScore])]
    /\ UNCHANGED <<wk, idxVars, offerVars, scoreVars, reqVars, limitVars>>

NextSignals ==
    \/ ForecastIncome
    \/ ComputeAnomalyScore
    \/ CheckWorkproofIntegrity
    \/ ComputeEarlyWarning
    \/ GatherSignals

----------------------------------------------------------------------------
(* ScoringEngine: the cached model and a scoring call (services/scoring.py) *)

MaxRestarts == 1

NoModel == "none"

\* The models a process can hold: the one train_synthetic_model fits (seed
\* 42) and another one somebody put at MODEL_PATH
Models == {"synthetic", "other"}

\* What MODEL_PATH can hold: nothing, bytes pickle.load fails on, or a model
FileStates == {"absent", "corrupt"} \cup Models

\* get_or_train_model without the "if _model is not None" return
get_or_train_model_nocache(m, file, saveOk) ==
    IF file \in Models
    THEN [model |-> file, file |-> file, obtained |-> 1]
    ELSE [model |-> "synthetic",
          file |-> IF saveOk THEN "synthetic" ELSE file,
          obtained |-> 1]

\* get_or_train_model: the cached model, else the one loaded from file, else
\* a newly trained one, which is saved unless the write fails
get_or_train_model(m, file, saveOk) ==
    IF m # NoModel THEN [model |-> m, file |-> file, obtained |-> 0]
    ELSE IF file \in Models
    THEN [model |-> file, file |-> file, obtained |-> 1]
    ELSE [model |-> "synthetic",
          file |-> IF saveOk THEN "synthetic" ELSE file,
          obtained |-> 1]

\* The feature vectors of the calls (ratings and consistency in hundredths):
\* the defaults of a worker without events, an active and a lapsing worker
FeatureSamples ==
    { [shift_count_7d |-> 0, shift_count_30d |-> 0, avg_rating_band |-> 250,
       earnings_consistency |-> 50, recency_days |-> 30],
      [shift_count_7d |-> 5, shift_count_30d |-> 20, avg_rating_band |-> 400,
       earnings_consistency |-> 80, recency_days |-> 0],
      [shift_count_7d |-> 2, shift_count_30d |-> 8, avg_rating_band |-> 300,
       earnings_consistency |-> 50, recency_days |-> 6] }

\* int(model.predict_proba(X)[0, 1] * 1_000_000). The fitted coefficients are
\* not in the source; each model is a fixed function of the feature vector,
\* here a clamped linear score with coefficients of its own.
compute_pd(m, features) ==
    LET z == 50 * features.recency_days - 20 * features.shift_count_7d
                - 5 * features.shift_count_30d - (features.avg_rating_band - 250)
                - (features.earnings_consistency - 50)
    IN IF m = "synthetic" THEN Max(0, Min(999999, 500000 + 1000 * z))
       ELSE Max(0, Min(999999, 300000 + 500 * z))

\* the trust score with the rating normalised as avg_rating_band / 4
compute_trust_score_unshifted(features, pd) ==
    FloatInt(250 * (4000 + 125 * Min(20, features.shift_count_30d)
                        + 5 * features.avg_rating_band
                        + Max(0, 1500 - 50 * features.recency_days)) - pd,
             250)

\* compute_trust_score: int(score * 10000) with score = 0.40 * (1 - pd / 1e6)
\* + 0.25 * min(1, shift_count_30d / 20) + 0.20 * (avg_rating_band - 1) / 4
\* + 0.15 * max(0, 1 - recency_days / 30); the values the float may truncate to
compute_trust_score(features, pd) ==
    FloatInt(250 * (4000 + 125 * Min(20, features.shift_count_30d)
                        + 5 * (features.avg_rating_band - 100)
                        + Max(0, 1500 - 50 * features.recency_days)) - pd,
             250)

\* the value this machine's float arithmetic yields, of the candidates
FloatPick(values, low) ==
    CHOOSE v \in values : \A u \in values : IF low THEN v <= u ELSE v >= u

\* generate_credit_offer with the model m: pd, trust score and terms
generate_credit_offer(m, features, low) ==
    LET pd == compute_pd(m, features)
        trust_score == FloatPick(compute_trust_score(features, pd), low)
        limits == {t.credit_limit :
                     t \in compute_credit_terms(trust_score, pd, features.shift_count_30d)}
    IN [trust_score |-> trust_score, pd |-> pd,
        credit_limit |-> FloatPick(limits, low),
        apr_bps |-> apr_bps(pd), tenure_days |-> tenure_days(trust_score)]

NoTrust == [scored |-> FALSE]

\* a process imports services.scoring: _model = None
StartProcess ==
    /\ proc = "down"
    /\ proc' = "up" /\ model' = NoModel /\ obtained' = 0 /\ scoreLog' = {}
    /\ UNCHANGED <<modelFile, restarts, fpLow, trust, idxVars, offerVars, sigVars, reqVars, limitVars>>

\* lifespan startup of the API: get_or_train_model()
PretrainModel ==
    /\ proc = "up" /\ scoreLog = {}
    /\ \E saveOk \in BOOLEAN :
         LET got == get_or_train_model(model, modelFile, saveOk)
         IN /\ model' = got.model
            /\ modelFile' = got.file
            /\ obtained' = obtained + got.obtained
    /\ UNCHANGED <<proc, scoreLog, restarts, fpLow, trust, idxVars, offerVars, sigVars, reqVars, limitVars>>

\* one scoring call: compute_pd obtains the model, then the offer
ScoreCall ==
    /\ proc = "up"
    /\ \E features \in FeatureSamples, saveOk \in BOOLEAN :
         LET got == get_or_train_model(model, modelFile, saveOk)
         IN /\ model' = got.model
            /\ modelFile' = got.file
            /\ obtained' = obtained + got.obtained
            /\ scoreLog' = scoreLog \cup
                  { [features |-> features,
                     result |-> generate_credit_offer(got.model, features, fpLow)] }
    /\ UNCHANGED <<proc, restarts, fpLow, trust, idxVars, offerVars, sigVars, reqVars, limitVars>>

\* somebody replaces, damages or removes the file at MODEL_PATH
FileChanged ==
    /\ \E f \in FileStates : f # modelFile /\ modelFile' = f
    /\ UNCHANGED <<proc, model, obtained, scoreLog, restarts, fpLow, trust,
                   idxVars, offerVars, sigVars, reqVars, limitVars>>

\* the process ends
StopProcess ==
    /\ proc = "up" /\ restarts < MaxRestarts
    /\ proc' = "down" /\ model' = NoModel /\ obtained' = 0 /\ scoreLog' = {}
    /\ restarts' = restarts + 1
    /\ UNCHANGED <<modelFile, fpLow, trust, idxVars, offerVars, sigVars, reqVars, limitVars>>

NextScoring ==
    \/ StartProcess
    \/ PretrainModel
    \/ ScoreCall
    \/ FileChanged
    \/ StopProcess

----------------------------------------------------------------------------
(* The indexer specification *)

\* a loop whose except clause ends it
after_exception_exit(is_running) == FALSE

\* except Exception of the loop: the error is printed, the loop sleeps and
\* goes on (only KeyboardInterrupt breaks it)
after_exception(is_running) == is_running

\* The chain mines: either one block that carries logs, or chunk_size blocks
\* without any log of the two indexed contracts
MineBlock ==
    /\ mined < MaxMines
    /\ \E step \in MineSteps, tpls \in BlockLogChoices :
          /\ step = 1 \/ tpls = <<>>
          /\ head' = head + step
          /\ chain' = chain \o Stamp(tpls, head + step, 1)
    /\ mined' = mined + 1
    /\ UNCHANGED <<db, checkpoint, running, startBlock, lastPoll, offerVars, sigVars, scoreVars, reqVars, limitVars>>

\* main() / EventIndexer.run up to the loop, for a first start and for every
\* restart of the process: the settings are read anew and
\* get_last_processed_block creates the checkpoint row if it is missing
StartIndexer ==
    /\ \E sb \in StartBlocks :
          /\ startBlock' = sb
          /\ checkpoint' = get_last_processed_block(checkpoint, sb)
    /\ running' = TRUE
    /\ lastPoll' = NoPoll
    /\ UNCHANGED <<chain, head, mined, db, offerVars, sigVars, scoreVars, reqVars, limitVars>>

\* One loop iteration in which w3.eth.block_number raises: caught by the
\* loop's except, nothing is read or written
PollBlockNumberFails ==
    /\ running
    /\ lastPoll' = [NoPoll EXCEPT !.kind = "rpc_error"]
    /\ running' = after_exception(running)
    /\ UNCHANGED <<chain, head, mined, db, checkpoint, startBlock, offerVars, sigVars, scoreVars, reqVars, limitVars>>

\* One loop iteration with last_processed >= current_block
PollUpToDate ==
    /\ running
    /\ ~(get_last_processed_block(checkpoint, startBlock) < head)
    /\ checkpoint' = get_last_processed_block(checkpoint, startBlock)
    /\ lastPoll' = [NoPoll EXCEPT !.kind = "idle"]
    /\ UNCHANGED <<chain, head, mined, db, running, startBlock, offerVars, sigVars, scoreVars, reqVars, limitVars>>

\* One loop iteration with last_processed < current_block: the chunk
\* [last_processed + 1, min(from_block + chunk_size - 1, current_block)] is
\* processed; update_last_processed_block runs unless process_block_range
\* raised; updOk says whether the database accepts that second commit.
PollChunk(wpOk, lvOk, dbOk, updOk) ==
    /\ running
    /\ LET last_processed == get_last_processed_block(checkpoint, startBlock)
           from_block == last_processed + 1
           to_block == Min(from_block + chunk_size - 1, head)
           res == process_block_range(db, chain, from_block, to_block, wpOk, lvOk, dbOk)
       IN /\ last_processed < head
          /\ db' = res.db
          /\ checkpoint' = IF ~res.raised /\ updOk
                           THEN update_last_processed_block(last_processed, to_block)
                           ELSE last_processed
          /\ lastPoll' = [kind |-> "chunk", from |-> from_block, to |-> to_block,
                          wpOk |-> wpOk, lvOk |-> lvOk,
                          committed |-> ~res.raised, before |-> last_processed,
                          added |-> Rows(res.db) - Rows(db)]
          /\ running' = IF res.raised \/ ~updOk THEN after_exception(running)
                        ELSE running
    /\ UNCHANGED <<chain, head, mined, startBlock, offerVars, sigVars, scoreVars, reqVars, limitVars>>

PollChunkOk == PollChunk(TRUE, TRUE, TRUE, TRUE)

\* a get_logs call fails for one or both contracts
PollChunkRpcFails ==
    \E wpOk, lvOk \in BOOLEAN : ~(wpOk /\ lvOk) /\ PollChunk(wpOk, lvOk, TRUE, TRUE)

\* the database refuses the commit of process_block_range
PollChunkCommitFails == PollChunk(TRUE, TRUE, FALSE, TRUE)

\* the events are committed and the checkpoint write then fails
PollChunkUpdateFails == PollChunk(TRUE, TRUE, TRUE, FALSE)

Next ==
    \/ MineBlock
    \/ StartIndexer
    \/ PollBlockNumberFails
    \/ PollUpToDate
    \/ PollChunkOk
    \/ PollChunkRpcFails
    \/ PollChunkCommitFails
    \/ PollChunkUpdateFails

----------------------------------------------------------------------------
(***************************************************************************)
(* ScoringEngine: from an event history to the trust score                 *)
(* (services/scoring.py: extract_features_from_events, compute_trust_score)*)
(***************************************************************************)

\* The events handed to the scoring engine: n proofs, the newest age seconds
\* old (in the future if negative), gap seconds apart, each of the same
\* earned amount (in whole USDC, 1_000_000 units of the token)
EventRows(n, age, gap, earned) ==
    [i \in 1..n |-> [event_timestamp |-> Now - age - (i - 1) * gap,
                    earned_amount |-> earned]]

HistorySizes == {0, 1, 5, 20}
HistoryAges == {-3600, 0, 3600, 86399, 86400, 172799, 172800, 40 * DaySecs}
HistoryGaps == {0, 2 * DaySecs}
EarnedSamples == {100, 500, 700}
PdInputs == {0, 31250, 50000, 500000, 1000000}

\* The offset of the server's local time from UTC, in seconds
TzOffsets == {0, 19800, -28800}

TrustInputs ==
    [scored : {FALSE}, n : HistorySizes, age : HistoryAges, gap : HistoryGaps,
     earned : EarnedSamples, tz : TzOffsets, pd : PdInputs]

RECURSIVE SumEarned(_)
SumEarned(events) ==
    IF events = <<>> THEN 0 ELSE Head(events).earned_amount + SumEarned(Tail(events))

\* datetime.fromtimestamp(ts): the naive local time of the server, compared
\* below with the naive UTC time datetime.utcnow()
fromtimestamp(ts, tz) == ts + tz

\* extract_features_from_events; ratings and consistency in hundredths. The
\* histories drawn have equal earnings, whose coefficient of variation is 0
extract_features_from_events(events, tz) ==
    IF events = <<>>
    THEN [shift_count_7d |-> 0, shift_count_30d |-> 0, avg_rating_band |-> 250,
          earnings_consistency |-> 50, recency_days |-> 30]
    ELSE LET timestamps == [i \in 1..Len(events) |->
                              fromtimestamp(events[i].event_timestamp, tz)]
             seven_days_ago == Now - 7 * DaySecs
             thirty_days_ago == Now - 30 * DaySecs
             mean_earnings == SumEarned(events) \div Len(events)
             latest == CHOOSE t \in {timestamps[i] : i \in 1..Len(events)} :
                          \A i \in 1..Len(events) : timestamps[i] <= t
         IN [shift_count_7d |->
                 Cardinality({i \in 1..Len(events) : timestamps[i] >= seven_days_ago}),
             shift_count_30d |->
                 Cardinality({i \in 1..Len(events) : timestamps[i] >= thirty_days_ago}),
             avg_rating_band |-> Min(500, Max(100, mean_earnings)),
             earnings_consistency |->
                 IF Len(events) > 1 /\ mean_earnings > 0 THEN 100 ELSE 50,
             recency_days |-> (Now - latest) \div DaySecs]

\* The scoring engine scores one history with a PD handed in
ScoreHistory ==
    /\ trust # NoTrust /\ ~trust.scored
    /\ LET events == EventRows(trust.n, trust.age, trust.gap, trust.earned)
           features == extract_features_from_events(events, trust.tz)
       IN \E score \in compute_trust_score(features, trust.pd) :
            trust' = [scored |-> TRUE, n |-> trust.n, age |-> trust.age,
                      gap |-> trust.gap, earned |-> trust.earned, tz |-> trust.tz,
                      pd |-> trust.pd, features |-> features, score |-> score,
                      base_limit |-> base_limit(score)]
    /\ UNCHANGED <<proc, model, modelFile, obtained, scoreLog, restarts, fpLow,
                   idxVars, offerVars, sigVars, reqVars, limitVars>>

NextTrust == ScoreHistory

----------------------------------------------------------------------------
(***************************************************************************)
(* POST /ai/offer: the request handler generate_offer (routers/ai.py),     *)
(* step by step, against the event store and the audit table               *)
(***************************************************************************)

\* Bounds of the request model
MaxCommits == 1      \* indexer commits while requests are in flight
MaxClock == 1        \* seconds the wall clock advances during the run

RequestIds == {1, 2}

\* A worker address as sent by the client: whether it is a 20-byte hex address,
\* and Python's hash() of its checksum form in the serving process
Addresses ==
    {[valid |-> TRUE, hash |-> -900], [valid |-> TRUE, hash |-> 1000],
     [valid |-> FALSE, hash |-> 0]}

\* Rows of the worker in workproof_events when the first request arrives
StoreSizes == {0, 100}

\* Work proofs the chain fallback finds (0 also when the RPC call fails)
ChainEvents == {0, 3}

EVENT_LIMIT == 100
ATTESTATION_TTL == 900

\* A history as one computation saw it: rows first..last of the worker's
\* proofs in the store (in timestamp order), or the logs read from the chain
EmptyHistory == [source |-> "none", first |-> 1, last |-> 0]

StoreHistory(first, last) ==
    IF last < first THEN EmptyHistory
    ELSE [source |-> "store", first |-> first, last |-> last]

ChainHistory(n) ==
    IF n = 0 THEN EmptyHistory ELSE [source |-> "chain", first |-> 1, last |-> n]

\* Web3.to_checksum_address raises ValueError unless given a hex address
to_checksum_address(address) == [raised |-> ~address.valid, value |-> address]

\* Web3.is_address
is_address(address) == address.valid

\* get_optional_db: a session, or None when the session factory raises
get_optional_db(cfg_ok) == cfg_ok

\* get_worker_events_from_db: the 100 latest proofs of the worker
get_worker_events_from_db(up, n) ==
    IF ~up THEN [raised |-> TRUE, events |-> EmptyHistory]
    ELSE [raised |-> FALSE, events |-> StoreHistory(Max(1, n - EVENT_LIMIT + 1), n)]

\* get_worker_events_from_chain: the logs of the last 10000 blocks, [] on error
get_worker_events_from_chain(n) == ChainHistory(n)

\* The query of get_worker_features / get_workproof_history for a worker whose
\* proofs are all inside the windows: with no session passed in the service
\* opens its own (the factory raises again); a failing query propagates
store_read(has_db, up, n) ==
    IF ~has_db \/ ~up THEN [raised |-> TRUE, rows |-> EmptyHistory]
    ELSE [raised |-> FALSE, rows |-> StoreHistory(1, n)]

\* create_attestation's nonce with the modulus applied to the seconds as well
create_nonce_narrow(now, h) == now * 100 + (h % 1000)

\* nonce = now * 1000 + (hash(worker) % 1000)
create_nonce(now, h) == now * 1000 + (h % 1000)

create_attestation(worker, trust_score, pd, credit, apr, tenure, flags, now) ==
    [signed |-> TRUE, worker |-> worker, trustScore |-> trust_score, pd |-> pd,
     creditLimit |-> credit, aprBps |-> apr, tenureDays |-> tenure,
     fraudFlags |-> flags, issuedAt |-> now, expiresAt |-> now + ATTESTATION_TTL,
     nonce |-> create_nonce(now, worker.hash)]

\* sign_attestation: the signature is a function of the signed fields
sign_attestation(attestation) == [signer |-> "ai_signer", over |-> attestation]

\* the decimal digits of a natural number, most significant first
RECURSIVE Digits(_)
Digits(n) == IF n < 10 THEN <<n>> ELSE Append(Digits(n \div 10), n % 10)

\* str() of an integer: a minus sign if negative, then its digits
str(n) == [minus |-> n < 0, digits |-> Digits(IF n < 0 THEN 0 - n ELSE n)]

\* the audit row with the base APR of the scoring engine
offer_record_base(worker, base, attestation) ==
    [worker |-> worker, credit_limit |-> str(attestation.creditLimit),
     apr_bps |-> base.apr_bps, tenure_days |-> attestation.tenureDays,
     pd |-> attestation.pd, trust_score |-> attestation.trustScore,
     fraud_flags |-> attestation.fraudFlags]

\* OfferHistory(...) of Step J, from the values the attestation was created from
offer_record(worker, base, attestation) ==
    [worker |-> worker, credit_limit |-> str(attestation.creditLimit),
     apr_bps |-> attestation.aprBps, tenure_days |-> attestation.tenureDays,
     pd |-> attestation.pd, trust_score |-> attestation.trustScore,
     fraud_flags |-> attestation.fraudFlags]

\* Step J with the store's exception reaching the handler's caller
save_offer_history_uncaught(has_db, up, table, row) ==
    IF ~has_db THEN [raised |-> FALSE, outcome |-> "skipped", table |-> table, id |-> 0]
    ELSE IF ~up THEN [raised |-> TRUE, outcome |-> "failed", table |-> table, id |-> 0]
    ELSE [raised |-> FALSE, outcome |-> "saved", table |-> Append(table, row),
          id |-> Len(table) + 1]

\* Step J: db.add + db.commit inside try/except, skipped without a session;
\* the table's autoincrement gives the new row the next id
save_offer_history(has_db, up, table, row) ==
    IF ~has_db THEN [raised |-> FALSE, outcome |-> "skipped", table |-> table, id |-> 0]
    ELSE IF ~up THEN [raised |-> FALSE, outcome |-> "failed", table |-> table, id |-> 0]
    ELSE [raised |-> FALSE, outcome |-> "saved", table |-> Append(table, row),
          id |-> Len(table) + 1]

\* OfferResponse(...): the attestation, signature and bitmask of the response
OfferResponse(attestation, signature) ==
    [status |-> 200, attestation |-> attestation, signature |-> signature,
     fraudFlagsBitmask |-> attestation.fraudFlags]

\* HTTPException(status_code=400) and an exception no handler catches
BadRequest == [status |-> 400]
ServerError == [status |-> 500]
NoResponse == [status |-> 0]
NoAttestation == [signed |-> FALSE]

\* The scoring inputs and signal scores the services arrive at for a worker:
\* a steady worker with a clean record, and an occasional one with a flagged one
OfferInputs(worker) ==
    IF worker.hash > 0
    THEN {[trust_score |-> 5500, pd |-> 0, shift_count_30d |-> 25, confidence |-> 60,
           anomaly |-> 0, integrity |-> 0, risk |-> 0]}
    ELSE {[trust_score |-> 3500, pd |-> 150000, shift_count_30d |-> 1,
           confidence |-> 29, anomaly |-> 90, integrity |-> 50, risk |-> 60]}

IdleRequest ==
    [pc |-> "idle", worker |-> [valid |-> FALSE, hash |-> 0], db |-> FALSE,
     events |-> EmptyHistory, reads |-> {}, base |-> NoOffer,
     att |-> NoAttestation, signature |-> NoAttestation, audit |-> "none",
     rowId |-> 0, resp |-> NoResponse]

\* A client posts a request: FastAPI resolves the db dependency, lines 126-131
\* convert the address to its checksum form and check it, lines 133-144 read
\* the events from the store, else from the chain. The handler is a coroutine
\* that never awaits: the event loop of the serving process (uvicorn.run,
\* main.py) runs the waiting requests one after another, while the indexer,
\* the database and the clock go on
ReceiveOffer(r) ==
    /\ rq[r].pc = "idle"
    /\ \A other \in RequestIds :
         /\ rq[other].pc \in {"idle", "done"}
         /\ other < r => rq[other].pc = "done"
    /\ \E address \in Addresses, n \in ChainEvents :
         LET checksum_worker == to_checksum_address(address)
             has_db == get_optional_db(cfgOk)
             arrived == [IdleRequest EXCEPT !.worker = address, !.db = has_db]
             read == IF has_db THEN get_worker_events_from_db(storeUp, stored)
                     ELSE [raised |-> FALSE, events |-> EmptyHistory]
             found == IF read.raised THEN EmptyHistory ELSE read.events
             events == IF found = EmptyHistory
                       THEN get_worker_events_from_chain(n) ELSE found
         IN rq' = [rq EXCEPT ![r] =
                     IF checksum_worker.raised
                     THEN [arrived EXCEPT !.pc = "done", !.resp = ServerError]
                     ELSE IF ~is_address(address)
                     THEN [arrived EXCEPT !.pc = "done", !.resp = BadRequest]
                     ELSE [arrived EXCEPT !.pc = "events", !.events = events]]
    /\ UNCHANGED <<stored, commits, storeUp, cfgOk, audit, clock,
                   idxVars, offerVars, sigVars, scoreVars, limitVars>>

\* lines 146-260: the four signal services query the store again, then the
\* base offer, the adjustments, the bitmask, the attestation, the signature
\* and the coach (which queries the store as the signals did)
ComposeOffer(r) ==
    /\ rq[r].pc = "events"
    /\ LET read == store_read(rq[r].db, storeUp, stored)
       IN IF read.raised
          THEN rq' = [rq EXCEPT ![r].pc = "done", ![r].resp = ServerError]
          ELSE \E q \in OfferInputs(rq[r].worker) :
                 \E terms \in compute_credit_terms(q.trust_score, q.pd,
                                                   q.shift_count_30d) :
                    \E credit \in adjusted_credits(terms.credit_limit,
                                                    adjustment_factor(q)) :
                       LET attestation ==
                             create_attestation(rq[r].worker, q.trust_score, q.pd,
                                                credit,
                                                adjusted_apr(terms.apr_bps, q),
                                                adjusted_tenure(terms.tenure_days, q),
                                                fraud_flags(q), clock)
                       IN rq' = [rq EXCEPT ![r].pc = "signed",
                                           ![r].reads = {read.rows},
                                           ![r].base = terms,
                                           ![r].att = attestation,
                                           ![r].signature =
                                               sign_attestation(attestation)]
    /\ UNCHANGED <<stored, commits, storeUp, cfgOk, audit, clock,
                   idxVars, offerVars, sigVars, scoreVars, limitVars>>

\* lines 262-326: the audit row, then the response
SaveAndRespond(r) ==
    /\ rq[r].pc = "signed"
    /\ LET row == offer_record(rq[r].worker, rq[r].base, rq[r].att)
           saved == save_offer_history(rq[r].db, storeUp, audit, row)
       IN /\ audit' = saved.table
          /\ rq' = [rq EXCEPT ![r].pc = "done", ![r].audit = saved.outcome,
                              ![r].rowId = saved.id,
                              ![r].resp = IF saved.raised THEN ServerError
                                          ELSE OfferResponse(rq[r].att,
                                                             rq[r].signature)]
    /\ UNCHANGED <<stored, commits, storeUp, cfgOk, clock,
                   idxVars, offerVars, sigVars, scoreVars, limitVars>>

\* The indexer commits one more proof of the worker
IndexerCommits ==
    /\ commits < MaxCommits
    /\ storeUp
    /\ stored' = stored + 1
    /\ commits' = commits + 1
    /\ UNCHANGED <<rq, storeUp, cfgOk, audit, clock,
                   idxVars, offerVars, sigVars, scoreVars, limitVars>>

\* The database becomes unreachable, or reachable again
StoreGoesDown ==
    /\ storeUp
    /\ storeUp' = FALSE
    /\ UNCHANGED <<rq, stored, commits, cfgOk, audit, clock,
                   idxVars, offerVars, sigVars, scoreVars, limitVars>>

StoreComesUp ==
    /\ ~storeUp
    /\ storeUp' = TRUE
    /\ UNCHANGED <<rq, stored, commits, cfgOk, audit, clock,
                   idxVars, offerVars, sigVars, scoreVars, limitVars>>

\* time.time() moves to the next second
Tick ==
    /\ clock < MaxClock
    /\ clock' = clock + 1
    /\ UNCHANGED <<rq, stored, commits, storeUp, cfgOk, audit,
                   idxVars, offerVars, sigVars, scoreVars, limitVars>>

NextRequest ==
    \/ \E r \in RequestIds :
         \/ ReceiveOffer(r)
         \/ ComposeOffer(r)
         \/ SaveAndRespond(r)
    \/ IndexerCommits
    \/ StoreGoesDown
    \/ StoreComesUp
    \/ Tick

----------------------------------------------------------------------------
(***************************************************************************)
(* RateLimitMiddleware (main.py): the in-memory request rate limiter       *)
(***************************************************************************)

MaxOther == 1     \* requests of a key other than the busy one that are let through

\* 10 requests per minute
RATE_LIMIT == 10
RATE_WINDOW == 60

Clients == {"a", "b"}

\* the two limited paths and one that is not limited
LimitedPaths == {"/ai/offer", "/workproof/simulate"}
Paths == LimitedPaths \cup {"/health"}

\* the requests that arrive: one client is busy on /ai/offer, the same client
\* also uses the other paths, and a second client uses /ai/offer
Arrivals == {<<"a", "/ai/offer">>, <<"a", "/workproof/simulate">>,
             <<"a", "/health">>, <<"b", "/ai/offer">>}

BusyKey == <<"a", "/ai/offer">>

\* key = f"{client_ip}:{request.url.path}" of the limited paths
LimitKeys == Clients \X LimitedPaths

\* the instants at which requests arrive: together, 59 and 60 seconds later
Instants == {0, 59, 60}

\* the status of the response call_next returns
HandlerStatus == 200

\* an empty _rate_limits (a missing key reads as the empty list)
NoHistory == [k \in LimitKeys |-> <<>>]

NoReply == [client |-> "none", path |-> "none", status |-> 0]

\* history = [t for t in history if t > now - 60]
recent(history, now) == SelectSeq(history, LAMBDA t : t > now - RATE_WINDOW)

\* a limit check that lets one request more through
over_limit_late(history) == Len(history) > RATE_LIMIT

\* if len(history) >= 10
over_limit(history) == Len(history) >= RATE_LIMIT

\* RateLimitMiddleware.dispatch for one request: on a limited path the
\* pruned history of the key decides between the 429 response, which writes
\* nothing, and the append of now followed by call_next; every other path
\* goes to call_next at once
Dispatch(client, path) ==
    /\ IF path \in LimitedPaths
       THEN LET key == <<client, path>>
                now == wall
                history == recent(rate_limits[key], now)
            IN IF over_limit(history)
               THEN /\ reply' = [client |-> client, path |-> path, status |-> 429]
                    /\ UNCHANGED <<rate_limits, forwarded>>
               ELSE /\ key # BusyKey => Len(forwarded[key]) < MaxOther
                    /\ rate_limits' = [rate_limits EXCEPT ![key] = Append(history, now)]
                    /\ forwarded' = [forwarded EXCEPT ![key] = Append(@, now)]
                    /\ reply' = [client |-> client, path |-> path,
                                 status |-> HandlerStatus]
       ELSE /\ reply' = [client |-> client, path |-> path, status |-> HandlerStatus]
            /\ UNCHANGED <<rate_limits, forwarded>>
    /\ UNCHANGED <<wall, idxVars, offerVars, sigVars, scoreVars, reqVars>>

\* time.time() moves on to a later instant
Advance ==
    /\ \E t \in Instants : t > wall /\ wall' = t
    /\ UNCHANGED <<rate_limits, forwarded, reply,
                   idxVars, offerVars, sigVars, scoreVars, reqVars>>

\* the API process is restarted: the module is imported anew, _rate_limits = {}
RestartApi ==
    /\ rate_limits' = NoHistory
    /\ forwarded' = NoHistory
    /\ reply' = NoReply
    /\ UNCHANGED <<wall, idxVars, offerVars, sigVars, scoreVars, reqVars>>

NextLimiter ==
    \/ \E a \in Arrivals : Dispatch(a[1], a[2])
    \/ Advance
    \/ RestartApi

----------------------------------------------------------------------------
(* The specifications: each runs one part of the system, the others idle *)

\* the state after construction: no block mined, empty tables, no checkpoint
\* row, no indexer, API or scoring process started, no request made
Init ==
    /\ chain = <<>> /\ head = 0 /\ mined = 0 /\ db = EmptyDb
    /\ checkpoint = NoRow /\ running = FALSE /\ startBlock = 0 /\ lastPoll = NoPoll
    /\ req = IdleReq /\ offer = NoOffer
    /\ wk = NoWorker /\ sig = NoSig
    /\ proc = "down" /\ model = NoModel /\ modelFile = "absent" /\ obtained = 0
    /\ scoreLog = {} /\ restarts = 0 /\ fpLow = FALSE
    /\ trust = NoTrust
    /\ rq = [r \in RequestIds |-> IdleRequest] /\ stored = 0 /\ commits = 0
    /\ storeUp = TRUE /\ cfgOk = TRUE /\ audit = <<>> /\ clock = 0
    /\ rate_limits = NoHistory /\ forwarded = NoHistory /\ wall = 0 /\ reply = NoReply

\* the indexer against a growing chain
Spec == Init /\ [][Next]_vars

\* a request has gathered its signals and its base score inputs
InitOffer ==
    /\ chain = <<>> /\ head = 0 /\ mined = 0 /\ db = EmptyDb
    /\ checkpoint = NoRow /\ running = FALSE /\ startBlock = 0 /\ lastPoll = NoPoll
    /\ req \in Requests /\ offer = NoOffer
    /\ wk = NoWorker /\ sig = NoSig
    /\ proc = "down" /\ model = NoModel /\ modelFile = "absent" /\ obtained = 0
    /\ scoreLog = {} /\ restarts = 0 /\ fpLow = FALSE
    /\ trust = NoTrust
    /\ rq = [r \in RequestIds |-> IdleRequest] /\ stored = 0 /\ commits = 0
    /\ storeUp = TRUE /\ cfgOk = TRUE /\ audit = <<>> /\ clock = 0
    /\ rate_limits = NoHistory /\ forwarded = NoHistory /\ wall = 0 /\ reply = NoReply

\* one offer request from the scoring inputs to the composed offer
SpecOffer == InitOffer /\ [][NextOffer]_vars

\* the tables hold the rows of one worker
InitSignals ==
    /\ chain = <<>> /\ head = 0 /\ mined = 0 /\ db = EmptyDb
    /\ checkpoint = NoRow /\ running = FALSE /\ startBlock = 0 /\ lastPoll = NoPoll
    /\ req = IdleReq /\ offer = NoOffer
    /\ wk \in Workers /\ sig = NoSig
    /\ proc = "down" /\ model = NoModel /\ modelFile = "absent" /\ obtained = 0
    /\ scoreLog = {} /\ restarts = 0 /\ fpLow = FALSE
    /\ trust = NoTrust
    /\ rq = [r \in RequestIds |-> IdleRequest] /\ stored = 0 /\ commits = 0
    /\ storeUp = TRUE /\ cfgOk = TRUE /\ audit = <<>> /\ clock = 0
    /\ rate_limits = NoHistory /\ forwarded = NoHistory /\ wall = 0 /\ reply = NoReply

\* the signal services on the stored history of one worker
SpecSignals == InitSignals /\ [][NextSignals]_vars

\* MODEL_PATH holds any file or none; the float unit rounds one way
InitScoring ==
    /\ chain = <<>> /\ head = 0 /\ mined = 0 /\ db = EmptyDb
    /\ checkpoint = NoRow /\ running = FALSE /\ startBlock = 0 /\ lastPoll = NoPoll
    /\ req = IdleReq /\ offer = NoOffer
    /\ wk = NoWorker /\ sig = NoSig
    /\ proc = "down" /\ model = NoModel /\ modelFile \in FileStates /\ obtained = 0
    /\ scoreLog = {} /\ restarts = 0 /\ fpLow \in BOOLEAN
    /\ trust = NoTrust
    /\ rq = [r \in RequestIds |-> IdleRequest] /\ stored = 0 /\ commits = 0
    /\ storeUp = TRUE /\ cfgOk = TRUE /\ audit = <<>> /\ clock = 0
    /\ rate_limits = NoHistory /\ forwarded = NoHistory /\ wall = 0 /\ reply = NoReply

\* processes that score feature vectors while the model file changes
SpecScoring == InitScoring /\ [][NextScoring]_vars

\* the worker has some indexed proofs; the session factory works or not
InitRequest ==
    /\ chain = <<>> /\ head = 0 /\ mined = 0 /\ db = EmptyDb
    /\ checkpoint = NoRow /\ running = FALSE /\ startBlock = 0 /\ lastPoll = NoPoll
    /\ req = IdleReq /\ offer = NoOffer
    /\ wk = NoWorker /\ sig = NoSig
    /\ proc = "down" /\ model = NoModel /\ modelFile = "absent" /\ obtained = 0
    /\ scoreLog = {} /\ restarts = 0 /\ fpLow = FALSE
    /\ trust = NoTrust
    /\ rq = [r \in RequestIds |-> IdleRequest] /\ stored \in StoreSizes /\ commits = 0
    /\ storeUp = TRUE /\ cfgOk \in BOOLEAN /\ audit = <<>> /\ clock = 0
    /\ rate_limits = NoHistory /\ forwarded = NoHistory /\ wall = 0 /\ reply = NoReply

\* concurrent offer requests while the indexer commits and the store fails
SpecRequest == InitRequest /\ [][NextRequest]_vars

\* an event history and a PD are handed to the scoring engine
InitTrust ==
    /\ chain = <<>> /\ head = 0 /\ mined = 0 /\ db = EmptyDb
    /\ checkpoint = NoRow /\ running = FALSE /\ startBlock = 0 /\ lastPoll = NoPoll
    /\ req = IdleReq /\ offer = NoOffer
    /\ wk = NoWorker /\ sig = NoSig
    /\ proc = "down" /\ model = NoModel /\ modelFile = "absent" /\ obtained = 0
    /\ scoreLog = {} /\ restarts = 0 /\ fpLow = FALSE
    /\ trust \in TrustInputs
    /\ rq = [r \in RequestIds |-> IdleRequest] /\ stored = 0 /\ commits = 0
    /\ storeUp = TRUE /\ cfgOk = TRUE /\ audit = <<>> /\ clock = 0
    /\ rate_limits = NoHistory /\ forwarded = NoHistory /\ wall = 0 /\ reply = NoReply

\* the trust score of one history
SpecTrust == InitTrust /\ [][NextTrust]_vars

\* the rate limiter of a freshly started API process
SpecLimiter == Init /\ [][NextLimiter]_vars

----------------------------------------------------------------------------
(* Claims about the indexer, checked under Spec *)

\* the block numbers a replayed range may start or end at
RangeEnds == {1, head} \cup {chain[i].block : i \in 1..Len(chain)}

\* C1: processing the same inclusive block range twice, the chain answering
\* the same both times, leaves the three event tables exactly as processing
\* it once leaves them (same rows in the same order), and the second pass
\* commits whenever the first did.
C1_IdempotentIngestion ==
    \A f \in RangeEnds, t \in RangeEnds, wpOk \in BOOLEAN, lvOk \in BOOLEAN :
        f <= t =>
        LET once == process_block_range(db, chain, f, t, wpOk, lvOk, TRUE)
            twice == process_block_range(once.db, chain, f, t, wpOk, lvOk, TRUE)
        IN /\ twice.db = once.db
           /\ ~once.raised => ~twice.raised

\* a loop iteration replayed a range whose events were already stored (the
\* checkpoint write of the earlier pass had failed) and added no row
C1_Witness ==
    /\ lastPoll.kind = "chunk" /\ lastPoll.committed /\ lastPoll.added = 0
    /\ lastPoll.wpOk /\ lastPoll.lvOk
    /\ \E i \in 1..Len(db.wp) : InRange([block |-> db.wp[i].block_number],
                                        lastPoll.from, lastPoll.to)

\* C2: the persisted lastProcessedBlock never decreases, whatever iterations
\* fail and however the process is restarted and configured.
C2_CheckpointMonotone ==
    [][checkpoint # NoRow => (checkpoint' # NoRow /\ checkpoint' >= checkpoint)]_vars

\* the process was restarted with a start block below an advanced checkpoint
C2_Witness ==
    /\ running /\ lastPoll.kind = "none"
    /\ checkpoint >= chunk_size /\ startBlock < checkpoint

\* C3 (as claimed): when a get_logs call of the chunk failed, the checkpoint
\* is not advanced, so the next iteration asks for the same range again.
C3_RpcFailureKeepsCheckpoint ==
    (lastPoll.kind = "chunk" /\ ~(lastPoll.wpOk /\ lastPoll.lvOk))
        => checkpoint = lastPoll.before

\* C4: each event table holds at most one row per transaction hash.
C4_OneRowPerTx ==
    UniqueTx(db.wp) /\ UniqueTx(db.loan) /\ UniqueTx(db.repay)

\* the chain carries two decodable work-proof logs of one transaction, both
\* were fetched by the indexer, and the table holds that transaction
C4_Witness ==
    \E i, j \in 1..Len(chain) :
        /\ i < j /\ chain[i].tx = chain[j].tx
        /\ chain[i].topic = "wp" /\ chain[j].topic = "wp"
        /\ chain[i].decodable /\ chain[j].decodable
        /\ checkpoint # NoRow /\ checkpoint >= chain[j].block
        /\ Exists(db.wp, chain[i].tx)

----------------------------------------------------------------------------
(* Claims about the composed offer, checked under SpecOffer *)

\* C5: whatever the base offer and the confidence, anomaly, integrity and
\* early-warning scores, the final offer has 500 <= aprBps <= 3600,
\* tenureDays >= 7 and creditLimit >= 0.
C5_OfferClamped ==
    offer.made =>
        /\ 500 <= offer.aprBps /\ offer.aprBps <= 3600
        /\ offer.tenureDays >= 7
        /\ offer.creditLimit >= 0

\* an offer whose base APR plus adjustments exceeded 3600 and whose base
\* tenure minus 7 fell below 7: both clamps acted
C5_Witness ==
    /\ offer.made
    /\ offer.base.apr_bps + apr_adjustment(req) > 3600 /\ offer.aprBps = 3600
    /\ offer.base.tenure_days + tenure_adjustment(req) < 7 /\ offer.tenureDays = 7
    /\ offer.creditLimit < offer.base.credit_limit

\* C7: the fraudFlags of the offer are exactly: bit 1 iff anomaly >= 85 or
\* integrity >= 85, bit 2 iff anomaly >= 50, bit 4 iff integrity >= 50,
\* bit 8 iff the early-warning score >= 60, and bit 16 never; no other bit
\* is set.
C7_FraudFlagsExact ==
    offer.made =>
        /\ offer.fraudFlags \in 0..15
        /\ HasFlag(offer.fraudFlags, 1) <=> (req.anomaly >= 85 \/ req.integrity >= 85)
        /\ HasFlag(offer.fraudFlags, 2) <=> (req.anomaly >= 50)
        /\ HasFlag(offer.fraudFlags, 4) <=> (req.integrity >= 50)
        /\ HasFlag(offer.fraudFlags, 8) <=> (req.risk >= 60)
        /\ ~HasFlag(offer.fraudFlags, 16)

\* the scenario: anomaly 90 with integrity 40 and a low early-warning score
\* gives HARD_BLOCK | ANOMALY_SUSPECT = 3
C7_Witness ==
    /\ offer.made /\ req.anomaly = 90 /\ req.integrity = 40 /\ req.risk < 60
    /\ offer.fraudFlags = 3

----------------------------------------------------------------------------
(* Claims about the signal services, checked under SpecSignals *)

\* the fraud result r keeps every signal within its cap and the score in 0..100
FraudBounded(r) ==
    /\ r.anomalyScore \in 0..100
    /\ r.signals.inactivity \in 0..25 /\ r.signals.proofBurst \in 0..30
    /\ r.signals.unnaturalRate \in 0..20 /\ r.signals.ratingJumps \in 0..20
    /\ r.signals.loanBurst \in 0..15 /\ r.signals.lowRepay \in 0..25

IntegrityBounded(r) ==
    /\ r.flagScore \in 0..100
    /\ r.checks.density \in 0..30 /\ r.checks.hourlyBurst \in 0..20
    /\ r.checks.ordering \in 0..15 /\ r.checks.fastSubmissions \in 0..25
    /\ r.checks.duplicateHashes \in 0..30 /\ r.checks.ratingJumps \in 0..20

WarningBounded(r) ==
    /\ r.riskScore \in 0..100
    /\ r.signals.activityDecline \in 0..25 /\ r.signals.anomalyRisk \in 0..25
    /\ r.signals.repaymentRisk \in 0..30 /\ r.signals.volatilityRisk \in 0..15
    /\ r.signals.lowForecast \in 0..15 /\ r.signals.recencyRisk \in 0..10

\* C6: for every worker history the anomaly score, the integrity flag score
\* and the early-warning risk score are integers in 0..100, and every single
\* signal contributes between 0 and its own cap.
C6_ScoresBounded ==
    /\ sig.kind = "fraud" => FraudBounded(sig.res)
    /\ sig.kind = "integrity" => IntegrityBounded(sig.res)
    /\ sig.kind = "warning" => WarningBounded(sig.res)
    /\ sig.kind = "offer" =>
            FraudBounded(sig.fraud) /\ IntegrityBounded(sig.integrity)
                /\ WarningBounded(sig.warning)

\* an offer whose three scores were all cut to 100: the signals of each
\* service sum to more than 100
C6_Witness ==
    /\ sig.kind = "offer"
    /\ sig.fraud.anomalyScore = 100
    /\ sig.fraud.signals.proofBurst + sig.fraud.signals.unnaturalRate
          + sig.fraud.signals.ratingJumps + sig.fraud.signals.loanBurst
          + sig.fraud.signals.lowRepay > 100
    /\ sig.integrity.flagScore = 100
    /\ sig.integrity.checks.density + sig.integrity.checks.hourlyBurst
          + sig.integrity.checks.fastSubmissions + sig.integrity.checks.duplicateHashes
          + sig.integrity.checks.ratingJumps > 100

\* the worker has no event in any of the three tables
ZeroHistory == wk.proofs = <<>> /\ wk.loans = <<>> /\ wk.repays = <<>>

ForecastNoData(r) ==
    /\ r.expectedIncome_14d = 0 /\ r.expectedIncome_30d = 0
    /\ r.incomeVolatility = 0 /\ r.confidence = 0 /\ r.dataPoints = 0
    /\ r.confidenceLabel = "NO_DATA"

AllZero(signals) == \A k \in DOMAIN signals : signals[k] = 0

\* C10: for a worker without events the forecast is all zero with label
\* NO_DATA, the anomaly score is 0 and LOW, the flag score is 0 and UNKNOWN,
\* the risk score is 0 and LOW with no signal contributing (the no-proof
\* recency triggers no inactivity signal), and the offer's fraudFlags are 0.
C10_ZeroHistoryDefaults ==
    ZeroHistory =>
        /\ sig.kind = "forecast" => ForecastNoData(sig.res)
        /\ sig.kind = "fraud" =>
                sig.res.anomalyScore = 0 /\ sig.res.riskLevel = "LOW"
                    /\ AllZero(sig.res.signals)
        /\ sig.kind = "integrity" =>
                sig.res.flagScore = 0 /\ sig.res.riskLevel = "UNKNOWN"
        /\ sig.kind = "warning" =>
                sig.res.riskScore = 0 /\ sig.res.riskLevel = "LOW"
                    /\ AllZero(sig.res.signals)
        /\ sig.kind = "offer" =>
                /\ ForecastNoData(sig.forecast)
                /\ sig.fraud.anomalyScore = 0 /\ sig.fraud.riskLevel = "LOW"
                /\ sig.integrity.flagScore = 0 /\ sig.integrity.riskLevel = "UNKNOWN"
                /\ sig.warning.riskScore = 0 /\ sig.warning.riskLevel = "LOW"
                /\ sig.fraudFlags = 0

\* the offer signals were gathered for a worker without events, whose
\* recency is the no-proof value
C10_Witness ==
    /\ ZeroHistory /\ sig.kind = "offer" /\ sig.fraudFlags = 0
    /\ \A f \in get_worker_features(wk) :
            f.recencyHours = NoProofRecency10 /\ f.totalWorkProofs = 0

----------------------------------------------------------------------------
(* Claims about the scoring engine, checked under SpecScoring *)

\* C9: within one process any two scoring calls on the same feature vector
\* return the same pd, trust score, credit limit, APR and tenure, whatever
\* calls were made in between, and the process obtains a model at most once:
\* it is never retrained or replaced.
C9_ScoreDeterminism ==
    /\ \A a \in scoreLog, b \in scoreLog : a.features = b.features => a.result = b.result
    /\ obtained <= 1
    /\ scoreLog # {} => model # NoModel

\* every feature vector was scored by a process whose model differs from
\* the file now at MODEL_PATH
C9_Witness ==
    /\ proc = "up" /\ model # NoModel
    /\ modelFile \in Models /\ modelFile # model
    /\ \A f \in FeatureSamples : \E e \in scoreLog : e.features = f

----------------------------------------------------------------------------
(* Claims about the offer request handler, checked under SpecRequest *)

Done(r) == rq[r].pc = "done"

\* C11: a request whose worker address is malformed is rejected with HTTP 400
\* before any event read, signal computation, signing or audit write; it
\* never ends as a server error.
C11_MalformedRejected ==
    \A r \in RequestIds :
        Done(r) /\ ~rq[r].worker.valid =>
            /\ rq[r].resp = BadRequest
            /\ rq[r].events = EmptyHistory /\ rq[r].reads = {}
            /\ ~rq[r].att.signed /\ rq[r].audit = "none"

\* C12: when persisting the audit record fails, the request still returns
\* its response, with the attestation it signed, that attestation's signature
\* and bitmask, exactly as when the write succeeds.
C12_AuditFailureSwallowed ==
    \A r \in RequestIds :
        Done(r) /\ rq[r].audit \in {"failed", "saved"} =>
            /\ rq[r].att.signed
            /\ rq[r].resp = OfferResponse(rq[r].att, sign_attestation(rq[r].att))

C12_Witness ==
    \E r \in RequestIds :
        Done(r) /\ rq[r].audit = "failed" /\ rq[r].resp.status = 200

\* reading the decimal string of a credit_limit column back as a number
RECURSIVE ValueOf(_)
ValueOf(digits) ==
    IF digits = <<>> THEN 0
    ELSE 10 * ValueOf(SubSeq(digits, 1, Len(digits) - 1)) + digits[Len(digits)]

int_of(text) == IF text.minus THEN 0 - ValueOf(text.digits) ELSE ValueOf(text.digits)

RowMatches(row, attestation) ==
    /\ int_of(row.credit_limit) = attestation.creditLimit
    /\ row.apr_bps = attestation.aprBps
    /\ row.tenure_days = attestation.tenureDays
    /\ row.pd = attestation.pd
    /\ row.trust_score = attestation.trustScore
    /\ row.fraud_flags = attestation.fraudFlags

SavedRequests == {r \in RequestIds : rq[r].audit = "saved"}

\* the rows of the table and the requests that wrote one correspond one to one
OneRowEach ==
    /\ Len(audit) = Cardinality(SavedRequests)
    /\ \A r \in SavedRequests :
          /\ rq[r].rowId \in 1..Len(audit)
          /\ RowMatches(audit[rq[r].rowId], rq[r].att)
          /\ \A other \in SavedRequests : other # r => rq[other].rowId # rq[r].rowId

\* a step keeps every existing row; a request that ends while the store works
\* adds one row carrying the terms of its attestation, any other step none
AppendOnlyStep ==
    /\ Len(audit') >= Len(audit)
    /\ SubSeq(audit', 1, Len(audit)) = audit
    /\ \A r \in RequestIds :
          rq[r].pc = "signed" /\ rq'[r].pc = "done" /\ rq[r].db /\ storeUp =>
              /\ audit' = Append(audit, audit'[Len(audit')])
              /\ RowMatches(audit'[Len(audit')], rq[r].att)
              /\ rq'[r].resp.attestation = rq[r].att
    /\ (\A r \in RequestIds : ~(rq[r].pc = "signed" /\ rq'[r].pc = "done")) =>
          audit' = audit

\* C13: the audit log is append-only: every request that completes with a
\* working store adds exactly one row whose creditLimit, aprBps, tenureDays,
\* pd, trustScore and fraudFlags equal those of the attestation it signed, no
\* request modifies or removes a row, and k requests leave k rows.
C13_AuditAppendOnly == [](OneRowEach) /\ [][AppendOnlyStep]_vars

C13_Witness ==
    /\ Len(audit) = 2
    /\ \A r \in RequestIds : Done(r) /\ rq[r].audit = "saved"
    /\ rq[1].worker = rq[2].worker
    /\ rq[1].att.aprBps # rq[1].base.apr_bps

Signed(r) == rq[r].att.signed

\* C15: the nonce is issuedAt * 1000 + (hash(worker) mod 1000): two
\* attestations share a nonce exactly when they were created in the same
\* second for workers with the same hash remainder; attestations created in
\* different seconds never collide.
C15_NonceCollisions ==
    \A r1, r2 \in RequestIds :
        r1 # r2 /\ Signed(r1) /\ Signed(r2) =>
            /\ rq[r1].att.nonce = rq[r1].att.issuedAt * 1000
                                      + (rq[r1].worker.hash % 1000)
            /\ (rq[r1].att.nonce = rq[r2].att.nonce) <=>
                   /\ rq[r1].att.issuedAt = rq[r2].att.issuedAt
                   /\ rq[r1].worker.hash % 1000 = rq[r2].worker.hash % 1000
            /\ rq[r1].att.issuedAt # rq[r2].att.issuedAt =>
                   rq[r1].att.nonce # rq[r2].att.nonce

\* two attestations of different seconds, the later with the smaller remainder
C15_Witness ==
    /\ Signed(1) /\ Signed(2)
    /\ rq[1].att.issuedAt < rq[2].att.issuedAt
    /\ rq[1].worker.hash % 1000 > rq[2].worker.hash % 1000
    /\ rq[1].worker.hash < 0

\* C17: when the event store is unavailable during an offer request (no
\* session can be opened, or its queries fail) the request does not fail: it
\* completes with a degraded result from an empty or chain-fallback history.
C17_StoreOutageDegrades ==
    \A r \in RequestIds :
        Done(r) /\ rq[r].worker.valid => rq[r].resp.status = 200

\* C18: within one offer request the base score and the four signals are all
\* computed from the same event history, even when the indexer commits new
\* events during the request and for workers with more than 100 proofs.
C18_SameHistory ==
    \A r \in RequestIds :
        Signed(r) /\ rq[r].events.source = "store" => rq[r].reads = {rq[r].events}

----------------------------------------------------------------------------
(* Claims about the trust score, checked under SpecTrust *)

\* C14: for every work-proof history (any number of events, any timestamps,
\* also ones later than the current time) and every PD in [0, 1,000,000] the
\* trust score is an integer in [0, 10000].
C14_TrustInRange ==
    trust.scored => trust.score \in 0..10000

\* 5 proofs of earnedAmount 100_000_000, 2 days apart, the newest less than
\* 48 hours old
Scenario16 ==
    /\ trust.scored
    /\ trust.n = 5 /\ trust.earned = 100 /\ trust.gap = 2 * DaySecs
    /\ trust.age >= 0 /\ trust.age < 2 * DaySecs

\* C16 as stated: in the scenario the engine counts 3 or 4 proofs in the 7-day
\* window and the trust score lies in [2000, 6000), tier $100 or $250, for
\* every PD in [0, 1,000,000].
C16_ScenarioTier ==
    Scenario16 =>
        /\ trust.features.shift_count_7d \in {3, 4}
        /\ trust.score \in 2000..5999
        /\ trust.base_limit \in {100, 250}

\* C16 amended: in the scenario the engine counts 3 or 4 proofs in the 7-day
\* window and the trust score lies in [2000, 6200), tier $100, $250 or $500;
\* it lies below 6000, tier $100 or $250, whenever PD is at least 50,000.
C16_ScenarioTierAmended ==
    Scenario16 =>
        /\ trust.features.shift_count_7d \in {3, 4}
        /\ trust.score \in 2000..6199
        /\ trust.base_limit \in {100, 250, 500}
        /\ trust.pd >= 50000 =>
              trust.score < 6000 /\ trust.base_limit \in {100, 250}

C16_Witness ==
    /\ Scenario16
    /\ trust.pd = 0 /\ trust.tz = 0
    /\ trust.features.shift_count_7d = 4
    /\ trust.base_limit = 500

----------------------------------------------------------------------------
(* Further claims about the indexer, checked under Spec *)

\* the chain without the logs that do not decode
Decodable(logs) == SelectSeq(logs, LAMBDA l : l.decodable)

HasBadLog(from_block, to_block) ==
    \E i \in 1..Len(chain) :
        InRange(chain[i], from_block, to_block) /\ ~chain[i].decodable

\* every decodable log of the range that a handler exists for has its row
StoredIn(store, from_block, to_block) ==
    \A i \in 1..Len(chain) :
        InRange(chain[i], from_block, to_block) /\ chain[i].decodable =>
            /\ chain[i].topic = "wp" => Exists(store.wp, chain[i].tx)
            /\ chain[i].topic = "loan" => Exists(store.loan, chain[i].tx)
            /\ chain[i].topic = "repaid" => Exists(store.repay, chain[i].tx)

\* whatever range is processed, the logs that do not decode change nothing:
\* the tables and the commit are those of the range without them, and a
\* commit stores every decodable log of the range
BadLogsSkipped ==
    \A f \in RangeEnds, t \in RangeEnds :
        f <= t =>
        LET with == process_block_range(db, chain, f, t, TRUE, TRUE, TRUE)
            without == process_block_range(db, Decodable(chain), f, t,
                                           TRUE, TRUE, TRUE)
        IN /\ with = without
           /\ ~with.raised => StoredIn(with.db, f, t)

\* an iteration whose RPC and store calls succeed ends as it would have
\* ended without the undecodable logs, with the checkpoint at toBlock
ChunkCompletes ==
    PollChunkOk /\ HasBadLog(lastPoll'.from, lastPoll'.to) =>
        LET without == process_block_range(db, Decodable(chain), lastPoll'.from,
                                           lastPoll'.to, TRUE, TRUE, TRUE)
        IN /\ db' = without.db
           /\ lastPoll'.committed = ~without.raised
           /\ lastPoll'.committed =>
                 checkpoint' = lastPoll'.to /\ StoredIn(db', lastPoll'.from, lastPoll'.to)

LastProcessed == get_last_processed_block(checkpoint, startBlock)

Iteration ==
    \/ PollBlockNumberFails
    \/ PollUpToDate
    \/ PollChunkOk
    \/ PollChunkRpcFails
    \/ PollChunkCommitFails
    \/ PollChunkUpdateFails

\* while the loop runs an iteration can follow, and the idle one exactly
\* when lastProcessedBlock >= currentBlock
ChunkIffBehind ==
    running =>
        /\ ENABLED Iteration
        /\ (ENABLED PollUpToDate) <=> ~(LastProcessed < head)

\* an iteration never ends the loop; a chunk is processed only when behind,
\* and the idle and the failed-read iterations write nothing
IterationStep ==
    Iteration =>
        /\ running'
        /\ lastPoll'.kind \in {"chunk", "idle", "rpc_error"}
        /\ lastPoll'.kind = "chunk" =>
              LastProcessed < head /\ lastPoll'.from = LastProcessed + 1
        /\ lastPoll'.kind # "chunk" => db' = db /\ checkpoint' = checkpoint
        /\ lastPoll'.kind = "idle" => ~(LastProcessed < head)

\* C20: in each loop iteration the indexer processes a chunk iff
\* lastProcessedBlock < currentBlock; when lastProcessedBlock >= currentBlock
\* it changes neither the event tables nor the checkpoint; any RPC or store
\* exception raised in an iteration is caught, so the loop continues with the
\* next iteration and ends only on shutdown.
C20_LoopIterations == [](ChunkIffBehind) /\ [][IterationStep]_vars

\* the commit of a chunk raised, the loop is still running behind the head
\* with rows stored by earlier iterations
C20_Witness ==
    /\ running /\ lastPoll.kind = "chunk" /\ ~lastPoll.committed
    /\ checkpoint = lastPoll.before /\ checkpoint < head
    /\ Rows(db) > 0

----------------------------------------------------------------------------
(* The ranges the indexer processes, checked under Spec *)

ChunkIteration ==
    \/ PollChunkOk
    \/ PollChunkRpcFails
    \/ PollChunkCommitFails
    \/ PollChunkUpdateFails

\* the range of the last chunk: it starts right after the checkpoint the
\* iteration read, spans at most chunk_size blocks and ends at or below the
\* head
RangeShape ==
    lastPoll.kind = "chunk" =>
        /\ lastPoll.from = lastPoll.before + 1
        /\ lastPoll.to >= lastPoll.from
        /\ lastPoll.to - lastPoll.from + 1 <= chunk_size
        /\ lastPoll.to <= head

\* a chunk iteration takes [lastProcessedBlock + 1, min(lastProcessedBlock +
\* chunk_size, currentBlock)] and leaves the checkpoint at the end of the
\* range or where it was; no other step moves an existing checkpoint. The
\* next range therefore starts one block after the end of the last range
\* whose iteration succeeded.
RangeStep ==
    /\ ChunkIteration =>
          /\ lastPoll'.before = LastProcessed
          /\ lastPoll'.from = LastProcessed + 1
          /\ lastPoll'.to = (IF LastProcessed + chunk_size < head
                             THEN LastProcessed + chunk_size ELSE head)
          /\ checkpoint' \in {LastProcessed, lastPoll'.to}
          /\ (lastPoll'.committed /\ running' /\ checkpoint' # LastProcessed)
                => checkpoint' = lastPoll'.to
    /\ (~ChunkIteration /\ checkpoint # NoRow) => checkpoint' = checkpoint

\* C21: every block range the indexer processes is [lastProcessedBlock + 1,
\* min(lastProcessedBlock + 100, currentBlock)]: at most 100 blocks, never
\* past the chain head, and the ranges of successive successful iterations
\* are contiguous, no block skipped and none overlapping.
C21_ChunkRanges == [](RangeShape) /\ [][RangeStep]_vars

\* a full chunk of chunk_size blocks was processed right after an earlier
\* chunk, and the checkpoint stands at its end, below the head or at it
C21_Witness ==
    /\ lastPoll.kind = "chunk" /\ lastPoll.committed
    /\ lastPoll.before >= chunk_size
    /\ lastPoll.to - lastPoll.from + 1 = chunk_size
    /\ checkpoint = lastPoll.to

----------------------------------------------------------------------------
(* The credit adjustment of an offer, checked under SpecOffer *)

\* one factor per signal, the highest matching tier only, as a numerator:
\* confidence, anomaly and integrity over 10, early warning over 100
TierProduct(r) ==
    (IF r.confidence >= 60 THEN 11 ELSE IF r.confidence < 30 THEN 9 ELSE 10)
  * (IF r.anomaly >= 60 THEN 7 ELSE IF r.anomaly >= 30 THEN 9 ELSE 10)
  * (IF r.integrity >= 60 THEN 7 ELSE IF r.integrity >= 30 THEN 9 ELSE 10)
  * (IF r.risk >= 60 THEN 60 ELSE IF r.risk >= 30 THEN 85 ELSE 100)

\* floor(c * n / 100000), computed in pieces that stay within 32 bits
FloorScaled(c, n) ==
    LET a == c \div 100000
        b == c % 100000
        X == (b \div 100) * n
        Y == (b % 100) * n
    IN a * n + X \div 1000 + ((X % 1000) * 100 + Y) \div 100000

----------------------------------------------------------------------------
(* The base credit terms, checked under SpecOffer *)

\* trust scores, PDs and 30-day proof counts on both sides of every step
TrustGrid == {0, 1999, 2000, 2999, 3000, 3999, 4000, 4999, 5000, 5999, 6000,
              6999, 7000, 7999, 8000, 10000}
PdGrid == {0, 49999, 50000, 99999, 100000, 199999, 200000, 399999, 400000,
           1000000}
ShiftGrid == {0, 1, 19, 20, 21, 40}

AprSteps == {800, 1200, 1800, 2400, 3600}
TenureSteps == {7, 14, 21, 30}
LimitTiers == {50, 100, 250, 500, 1000}

\* the three tables over the grid
StepTables ==
    /\ \A p \in PdGrid : apr_bps(p) \in AprSteps
    /\ \A p1, p2 \in PdGrid : p1 <= p2 => apr_bps(p1) <= apr_bps(p2)
    /\ \A t \in TrustGrid : tenure_days(t) \in TenureSteps /\ base_limit(t) \in LimitTiers
    /\ \A t1, t2 \in TrustGrid :
          t1 <= t2 => tenure_days(t1) <= tenure_days(t2) /\ base_limit(t1) <= base_limit(t2)
    /\ \A t \in TrustGrid, n \in ShiftGrid :
          \A c \in credit_limits(t, n) : c <= base_limit(t) * 1500000

\* the terms of the offer made, against the grid
TermsOfOffer ==
    offer.made =>
        /\ offer.base.apr_bps \in AprSteps
        /\ offer.base.tenure_days \in TenureSteps
        /\ base_limit(req.trust_score) \in LimitTiers
        /\ \A p \in PdGrid :
              /\ p >= req.pd => apr_bps(p) >= offer.base.apr_bps
              /\ p <= req.pd => apr_bps(p) <= offer.base.apr_bps
        /\ \A t \in TrustGrid :
              /\ t >= req.trust_score =>
                    /\ tenure_days(t) >= offer.base.tenure_days
                    /\ base_limit(t) >= base_limit(req.trust_score)
              /\ t <= req.trust_score =>
                    /\ tenure_days(t) <= offer.base.tenure_days
                    /\ base_limit(t) <= base_limit(req.trust_score)
        /\ offer.base.credit_limit <= base_limit(req.trust_score) * 1500000

\* C23: base APR is one of 800, 1200, 1800, 2400, 3600 bps and never
\* decreases as PD increases; tenure is one of 7, 14, 21, 30 days and the base
\* limit tier one of $50, $100, $250, $500, $1000, neither decreasing as the
\* trust score increases; the credit limit is at most 1.5 times its tier's
\* base amount.
C23_StepTables == StepTables /\ TermsOfOffer

\* an offer at the top tier whose activity multiplier is cut at 1.5 and whose
\* PD is in the highest APR step
C23_Witness ==
    /\ offer.made
    /\ req.shift_count_30d > 20
    /\ offer.base.credit_limit = base_limit(req.trust_score) * 1500000
    /\ offer.base.apr_bps = 3600 /\ offer.base.tenure_days = 30

----------------------------------------------------------------------------
(* The timestamp checks of the integrity service, checked under SpecSignals *)

\* the proofs of the worker inside the 30-day window, in table order
StoredWindow(w) ==
    SelectSeq(w.proofs, LAMBDA wp : wp.timestamp >= Now - 30 * DaySecs)

\* the table holds two proofs of the window with the later one first
StoredOutOfOrder(w) ==
    \E i, j \in DOMAIN StoredWindow(w) :
        i < j /\ StoredWindow(w)[i].timestamp > StoredWindow(w)[j].timestamp

\* C24 (as claimed): for a worker whose proofs were stored in an order that
\* differs from the chronological order of their timestamps, the integrity
\* check raises the timestamp-ordering flag and adds its 15 points.
C24_OrderingFlagged ==
    (sig.kind = "integrity" /\ StoredOutOfOrder(wk)) =>
        /\ sig.res.checks.ordering = 15
        /\ sig.res.flagScore >= 15

\* the pairs of chronologically consecutive proofs less than 60 seconds
\* apart, equal timestamps included
ClosePairs(w) ==
    LET sorted == OrderAsc(StoredWindow(w))
    IN Cardinality({i \in 2..Len(sorted) :
           sorted[i].timestamp - sorted[i - 1].timestamp < 60})

\* C25 (as claimed): every pair of chronologically consecutive proofs less
\* than 60 seconds apart, proofs with identical timestamps included, counts
\* as a fast submission and raises flagScore by 5 per pair up to 25.
C25_FastPairsCounted ==
    (sig.kind = "integrity" /\ StoredWindow(wk) # <<>>) =>
        LET pairs == ClosePairs(wk)
        IN sig.res.checks.fastSubmissions = (IF 5 * pairs < 25 THEN 5 * pairs ELSE 25)

----------------------------------------------------------------------------
(* The default probabilities of the early warning, checked under SpecSignals *)

\* d thousandths is score / horizon capped at 0.99 and rounded to 3 decimals
IsRescaled(d, score, horizon) ==
    IF 100 * score >= 99 * horizon THEN d = 990
    ELSE 2 * Abs(d * horizon - 1000 * score) <= horizon

ProbabilitiesOf(r) ==
    /\ IsRescaled(r.defaultRiskNext7d, r.riskScore, 120)
    /\ IsRescaled(r.defaultRiskNext14d, r.riskScore, 150)
    /\ r.defaultRiskNext14d <= r.defaultRiskNext7d
    /\ r.defaultRiskNext7d = 0 <=> r.riskScore = 0
    /\ r.defaultRiskNext14d = 0 <=> r.riskScore = 0

\* C26: in every early-warning result defaultRiskNext7d is min(0.99,
\* riskScore / 120) and defaultRiskNext14d is min(0.99, riskScore / 150), to
\* 3 decimals, so the 14-day value is at most the 7-day value and both are 0
\* exactly when riskScore is 0; the same for every risk score from 0 to 100.
C26_DefaultProbabilities ==
    /\ sig.kind = "warning" => ProbabilitiesOf(sig.res)
    /\ sig.kind = "offer" => ProbabilitiesOf(sig.warning)
    /\ \A score \in 0..100 :
          \A d7 \in default_risks(score, 120), d14 \in default_risks(score, 150) :
              ProbabilitiesOf([riskScore |-> score, defaultRiskNext7d |-> d7,
                               defaultRiskNext14d |-> d14])

\* an early-warning result with a positive risk score whose 14-day
\* probability is below the 7-day one
C26_Witness ==
    /\ sig.kind = "warning"
    /\ sig.res.riskScore > 0
    /\ 0 < sig.res.defaultRiskNext14d
    /\ sig.res.defaultRiskNext14d < sig.res.defaultRiskNext7d

----------------------------------------------------------------------------
(* Progress of the indexer *)

\* The indexer with a fair loop: the while loop of run() keeps iterating, and
\* as long as the checkpoint is behind the head an iteration whose RPC and
\* store calls all answer is eventually taken. The head stops after MaxMines
\* mining steps.
SpecProgress == Init /\ [][Next]_vars /\ WF_vars(PollChunkOk)

\* the checkpoint row exists and is not behind the head
CaughtUp == checkpoint # NoRow /\ checkpoint >= head

\* every transaction hash of the chain belongs to one block
OneBlockPerTx ==
    \A i, j \in 1..Len(chain) : chain[i].tx = chain[j].tx => chain[i].block = chain[j].block

\* C27 (as claimed): whatever logs the chain holds, a transaction with two
\* logs of one event type included, the running indexer eventually reaches
\* lastProcessedBlock = currentBlock; no chunk fails forever.
C27_IndexerProgress == [](OneBlockPerTx) => (running ~> CaughtUp)

----------------------------------------------------------------------------
(* The early-warning bit of an offer, checked under SpecSignals *)

\* C28 (as claimed): in every offer the EARLY_WARNING_HIGH bit is set exactly
\* when the riskLevel of the early-warning result is HIGH or CRITICAL.
C28_WarningBitMatchesLevel ==
    sig.kind = "offer" =>
        (HasFlag(sig.fraudFlags, FLAG_EARLY_WARNING_HIGH)
            <=> sig.warning.riskLevel \in {"HIGH", "CRITICAL"})

\* C28: in every offer the EARLY_WARNING_HIGH bit is set exactly when the
\* early-warning riskScore is at least 60. Whenever the bit is set the
\* riskLevel is HIGH or CRITICAL, and a CRITICAL level always sets it, but a
\* HIGH level with a riskScore from 50 to 59 leaves it clear.
C28_WarningBitAmended ==
    sig.kind = "offer" =>
        /\ HasFlag(sig.fraudFlags, FLAG_EARLY_WARNING_HIGH) <=> sig.warning.riskScore >= 60
        /\ HasFlag(sig.fraudFlags, FLAG_EARLY_WARNING_HIGH)
              => sig.warning.riskLevel \in {"HIGH", "CRITICAL"}
        /\ sig.warning.riskLevel = "CRITICAL"
              => HasFlag(sig.fraudFlags, FLAG_EARLY_WARNING_HIGH)
        /\ (sig.warning.riskLevel = "HIGH" /\ sig.warning.riskScore < 60)
              => ~HasFlag(sig.fraudFlags, FLAG_EARLY_WARNING_HIGH)

\* an offer whose early-warning level is HIGH and whose bit is set
C28_Witness ==
    /\ sig.kind = "offer"
    /\ sig.warning.riskLevel = "HIGH"
    /\ HasFlag(sig.fraudFlags, FLAG_EARLY_WARNING_HIGH)

----------------------------------------------------------------------------
(* The flagged events of the integrity service, checked under SpecSignals *)

\* no check fired: the flags list is the single "No integrity issues
\* detected" entry (every check that fires adds a positive score)
NoCheckFired(r) ==
    /\ r.proofCount > 0
    /\ r.flagScore = 0
    /\ \A k \in DOMAIN r.checks : r.checks[k] = 0

\* C29 (as claimed): in every integrity result in which no check fired the
\* list of flagged event ids is empty.
C29_NoFlagNoEvents ==
    /\ sig.kind = "integrity" => (NoCheckFired(sig.res) => sig.res.eventIds = {})
    /\ sig.kind = "offer" => (NoCheckFired(sig.integrity) => sig.integrity.eventIds = {})

----------------------------------------------------------------------------
(* The request rate limiter, checked under SpecLimiter *)

\* how many of the times lie in the 60 seconds that end at t (t included),
\* and in the 60 seconds that begin at t (t included)
InWindowBefore(times, t) ==
    Cardinality({i \in DOMAIN times : times[i] > t - 60 /\ times[i] <= t})

InWindowFrom(times, t) ==
    Cardinality({i \in DOMAIN times : times[i] >= t /\ times[i] < t + 60})

\* per key, no 60-second window holds more than 10 forwarded requests
WindowBound ==
    \A k \in LimitKeys : \A t \in Instants :
        InWindowBefore(forwarded[k], t) <= 10 /\ InWindowFrom(forwarded[k], t) <= 10

\* a dispatch on a limited path with 10 forwarded requests in the last 60
\* seconds answers 429; a 429 records nothing; a forwarded request is recorded
\* for its own key only; a path that is not limited is always forwarded
DispatchStep ==
    (\E a \in Arrivals : Dispatch(a[1], a[2])) =>
        LET key == <<reply'.client, reply'.path>>
        IN /\ reply'.path \in LimitedPaths =>
                /\ InWindowBefore(forwarded[key], wall) >= 10 => reply'.status = 429
                /\ reply'.status = 429 => InWindowBefore(forwarded[key], wall) >= 10
                /\ reply'.status # 429 =>
                      forwarded'[key] = Append(forwarded[key], wall)
                /\ \A k \in LimitKeys \ {key} :
                      forwarded'[k] = forwarded[k] /\ rate_limits'[k] = rate_limits[k]
           /\ reply'.status = 429 =>
                rate_limits' = rate_limits /\ forwarded' = forwarded
           /\ reply'.path \notin LimitedPaths =>
                /\ reply'.status # 429
                /\ rate_limits' = rate_limits /\ forwarded' = forwarded

\* a restarted process has no counter
RestartStep ==
    RestartApi => \A k \in LimitKeys : rate_limits'[k] = <<>>

\* C30: for each client address and limited path (/ai/offer,
\* /workproof/simulate), any 60-second window holds at most 10 requests
\* forwarded to the handler; a request arriving when 10 forwarded requests lie
\* within the last 60 seconds gets HTTP 429, is not recorded and leaves the
\* allowance of every other client and path as it was; the counters are empty
\* after a process restart.
C30_RateLimit ==
    /\ [](WindowBound)
    /\ [][DispatchStep]_vars
    /\ [][RestartStep]_vars

\* the busy client was refused on /ai/offer 59 seconds after its tenth
\* request, while its other path and the other client had been let through
C30_Witness ==
    /\ reply = [client |-> "a", path |-> "/ai/offer", status |-> 429]
    /\ wall = 59
    /\ Len(forwarded[BusyKey]) = 10
    /\ forwarded[<<"a", "/workproof/simulate">>] # <<>>
    /\ forwarded[<<"b", "/ai/offer">>] # <<>>

====
